---- MODULE Spec2Model ----
(***************************************************************************)
(* The agent loops of learn-claude-code (v0, s01 .. s06) as one state      *)
(* machine: the conversation store, the request / execute / append cycle,  *)
(* the subagent of s04, the todo reminder of s03 and the three compaction  *)
(* tiers of s06.                                                           *)
(*                                                                         *)
(* A text is abstracted to what the loops read of it: where it comes from  *)
(* (tag, arg, ts) and how long it is (leading blanks, body, trailing      *)
(* blanks), so that strip(), slicing and len() are computed, not assumed.  *)
(***************************************************************************)
EXTENDS Integers, Sequences, FiniteSets, TLC

\* ---------------------------------------------------------------- bounds
MaxBatch     == 2   \* tool calls in one model response
MaxCalls     == 2   \* tool calls in one session
MaxRequests  == 3   \* model requests (with the tool schema) in one session
DeepCalls    == 4   \* the same two for the long s06 sessions of SpecCompact,
DeepRequests == 3   \* whose model picks from fewer kinds of call
MaxTodo      == 2   \* items in a todo submission (the lists of 20 and 21 items apart)
TodoCalls    == 2   \* tool calls and model requests in a session of SpecTodo,
TodoRequests == 2   \* whose model calls todo only, with its own submission
ReminderCalls    == 4   \* tool calls and model requests in a session of SpecReminder,
ReminderRequests == 4   \* which runs three tool turns and the request after them
SubTexts     == 1   \* responses with a text of the child in a session of SpecSubagent
MaxPath      == 3   \* components of a requested path
MaxContent   == 3   \* characters of a file that is edited
MaxOld       == 2   \* characters of old_text
MaxRead      == 5   \* characters (or blocks of characters) of a file that is read
SkillCalls   == 3   \* tool calls of a session that loads skills
WideBatch    == 4   \* tool calls in one model response of a session of SpecWide,
WideRequests == 3   \* and its model requests

\* ------------------------------------------------------ program constants
THRESHOLD     == 5000
KEEP_RECENT   == 3
MicroLimit    == 100
ResultLimit   == 50000
SubagentCap   == 30
DumpLimit     == 80000
TodoLimit     == 20

\* s01 stands for v0_bash_agent.chat as well: the two loops are the same code.
Variants == {"s01", "s02", "s03", "s04", "s05", "s06"}

\* ------------------------------------------------------------------ text
Text(tag, arg, ts, lead, body, trail) ==
  [tag |-> tag, arg |-> arg, ts |-> ts, lead |-> lead, body |-> body, trail |-> trail]

Empty == Text("", "", 0, 0, 0, 0)

TLen(t) == t.lead + t.body + t.trail

Min(a, b) == IF a <= b THEN a ELSE b

\* str.strip(): leading and trailing blanks go; a text of blanks only is "".
Strip(t) ==
  IF t.body = 0 THEN Empty
  ELSE [t EXCEPT !.lead = 0, !.trail = 0]

\* str(output) with no [:n] after it.
Prefix_whole(t, n) == t

\* s[:n]: the first n characters.
Prefix(t, n) ==
  IF TLen(t) <= n THEN t
  ELSE LET l == Min(t.lead, n)
           b == Min(t.body, n - l)
           r == n - l - b
       IN IF b = 0 /\ l = 0 THEN Empty
          ELSE [t EXCEPT !.lead = l, !.body = b, !.trail = r]

\* x or y : Python's `or` on strings.
OrElse(t, alt) == IF TLen(t) = 0 THEN alt ELSE t

NameLen(name) ==
  CASE name = "bash"       -> 4
    [] name = "read_file"  -> 9
    [] name = "write_file" -> 10
    [] name = "edit_file"  -> 9
    [] name = "todo"       -> 4
    [] name = "task"       -> 4
    [] name = "load_skill" -> 10
    [] name = "compact"    -> 7
    [] name = "unknown"    -> 7
    [] name = "nope"       -> 4
    [] name = "a_tool_with_a_very_long_name" -> 120
    [] OTHER               -> 4

\* The fixed texts of the loops.
UnknownTool(name) == Text("unknown_tool", name, 0, 0, 6 + NameLen(name), 0)
ErrorText(name)   == Text("error", name, 0, 0, 12, 0)
Compacting        == Text("compacting", "compact", 0, 0, 7, 0)
NoOutput          == Text("no_output", "bash", 0, 0, 5, 0)
NoSummary         == Text("no_summary", "task", 0, 0, 5, 0)
Placeholder(name) == Text("placeholder", name, 0, 0, 9 + NameLen(name), 0)
Ack               == Text("ack", "", 0, 0, 22, 0)
Pointer(ts, s)    == Text("compacted", s.tag, ts, 0, 60 + TLen(s), 0)

\* --------------------------------------------------------------- messages
UserMsg(c)       == [role |-> "user", content |-> c, tool_calls |-> <<>>, tool_call_id |-> 0]
AsstMsg(c, tcs)  == [role |-> "assistant", content |-> c, tool_calls |-> tcs, tool_call_id |-> 0]
ToolMsg(id, c)   == [role |-> "tool", content |-> c, tool_calls |-> <<>>, tool_call_id |-> id]

Call(id, name, arguments) == [id |-> id, name |-> name, arguments |-> arguments]

RECURSIVE SumLen(_)
SumLen(msgs) ==
  IF msgs = <<>> THEN 0
  ELSE 40 + TLen(Head(msgs).content) + 60 * Len(Head(msgs).tool_calls) + SumLen(Tail(msgs))

\* len(str(messages)) // 4
estimate_tokens(msgs) == (2 + SumLen(msgs)) \div 4

\* ------------------------------------------------------- micro_compact
ToolIdx(msgs) == {i \in DOMAIN msgs : msgs[i].role = "tool"}

\* tool_name_map: built over ALL assistant messages of the list, in order,
\* so that a later call recorded under the same id overwrites an earlier one.
NamedBy(msgs, tid) ==
  IF tid = 0 THEN {}
  ELSE UNION { { <<i, j>> : j \in {k \in DOMAIN msgs[i].tool_calls : msgs[i].tool_calls[k].id = tid} } :
               i \in {n \in DOMAIN msgs : msgs[n].role = "assistant"} }

LastOf(pairs) ==
  CHOOSE p \in pairs : \A q \in pairs : q[1] < p[1] \/ (q[1] = p[1] /\ q[2] <= p[2])

tool_name_map(msgs, tid) ==
  IF NamedBy(msgs, tid) = {} THEN "unknown"
  ELSE LET p == LastOf(NamedBy(msgs, tid)) IN msgs[p[1]].tool_calls[p[2]].name

\* tool_result_indices[:-(KEEP_RECENT - 1)]
to_clear_fewer(msgs) ==
  {i \in ToolIdx(msgs) : Cardinality({j \in ToolIdx(msgs) : j > i}) >= KEEP_RECENT - 1}

\* tool_result_indices[:-KEEP_RECENT]
to_clear(msgs) ==
  {i \in ToolIdx(msgs) : Cardinality({j \in ToolIdx(msgs) : j > i}) >= KEEP_RECENT}

\* The placeholder written without **msg: role and content only.
micro_compact_bare(msgs) ==
  IF Cardinality(ToolIdx(msgs)) <= KEEP_RECENT THEN msgs
  ELSE [i \in DOMAIN msgs |->
          IF i \in to_clear(msgs) /\ TLen(msgs[i].content) > MicroLimit
          THEN ToolMsg(0, Placeholder(tool_name_map(msgs, msgs[i].tool_call_id)))
          ELSE msgs[i]]

\* An old result cut to its first half in place of the placeholder.
micro_compact_halve(msgs) ==
  IF Cardinality(ToolIdx(msgs)) <= KEEP_RECENT THEN msgs
  ELSE [i \in DOMAIN msgs |->
          IF i \in to_clear(msgs) /\ TLen(msgs[i].content) > MicroLimit
          THEN [msgs[i] EXCEPT !.content = Prefix(msgs[i].content, TLen(msgs[i].content) \div 2)]
          ELSE msgs[i]]

\* len(content) > 200 as the test.
micro_compact_lenient(msgs) ==
  IF Cardinality(ToolIdx(msgs)) <= KEEP_RECENT THEN msgs
  ELSE [i \in DOMAIN msgs |->
          IF i \in to_clear(msgs) /\ TLen(msgs[i].content) > 2 * MicroLimit
          THEN [msgs[i] EXCEPT !.content = Placeholder(tool_name_map(msgs, msgs[i].tool_call_id))]
          ELSE msgs[i]]

\* Without the early return and with every result but the last cleared.
micro_compact_eager(msgs) ==
  [i \in DOMAIN msgs |->
      IF i \in ToolIdx(msgs) /\ (\E j \in ToolIdx(msgs) : j > i) /\ TLen(msgs[i].content) > MicroLimit
      THEN [msgs[i] EXCEPT !.content = Placeholder(tool_name_map(msgs, msgs[i].tool_call_id))]
      ELSE msgs[i]]

micro_compact(msgs) ==
  IF Cardinality(ToolIdx(msgs)) <= KEEP_RECENT THEN msgs
  ELSE [i \in DOMAIN msgs |->
          IF i \in to_clear(msgs) /\ TLen(msgs[i].content) > MicroLimit
          THEN [msgs[i] EXCEPT !.content = Placeholder(tool_name_map(msgs, msgs[i].tool_call_id))]
          ELSE msgs[i]]

\* -------------------------------------------------------- auto_compact
\* open(transcript_path, "a"): the records go after those of a file there.
WriteTranscript_append(fs, ts, msgs) ==
  [t \in DOMAIN fs \cup {ts} |-> IF t = ts THEN (IF ts \in DOMAIN fs THEN fs[ts] ELSE <<>>) \o msgs
                                  ELSE fs[t]]

\* open(transcript_path, "w"): creates the file or truncates the one there.
WriteTranscript(fs, ts, msgs) ==
  [t \in DOMAIN fs \cup {ts} |-> IF t = ts THEN msgs ELSE fs[t]]

\* json.dumps(messages, ...)[:n]: the messages that fit whole, then of the next
\* one the content, as far as it fits, and after it the calls that fit whole.
RECURSIVE Dumped(_, _)
Dumped(msgs, n) ==
  IF msgs = <<>> \/ n <= 0 THEN <<>>
  ELSE LET m == Head(msgs)
           c == 40 + TLen(m.content)
       IN IF c + 60 * Len(m.tool_calls) <= n
          THEN << m >> \o Dumped(Tail(msgs), n - c - 60 * Len(m.tool_calls))
          ELSE << [m EXCEPT !.content = Prefix(m.content, n),
                            !.tool_calls = IF c >= n THEN <<>>
                                           ELSE SubSeq(m.tool_calls, 1, (n - c) \div 60)] >>

\* The conversation auto_compact puts into its request, after the fixed prompt.
conversation_text(msgs) == Dumped(msgs, DumpLimit)

\* The two synthetic messages auto_compact returns.
auto_compact(ts, response) ==
  << UserMsg(Pointer(ts, Strip(response))), AsstMsg(Ack, <<>>) >>

\* What the summarizing model may answer: a short padded text, or a long one.
\* max_tokens=2000 is a request to the server counted in its tokens; the code
\* puts no bound on len(summary), which is what estimate_tokens reads.
SummaryTexts == { Text("summary", "", 0, 1, 200, 1), Text("summary", "", 0, 0, 30000, 0) }

\* ------------------------------------------------------------ handlers
BaseTools == {"bash", "read_file", "write_file", "edit_file"}

\* "task" registered in the handler table of s04.
TOOL_HANDLERS_withtask(v) ==
  CASE v = "s02" -> BaseTools
    [] v = "s03" -> BaseTools \cup {"todo"}
    [] v = "s04" -> BaseTools \cup {"task"}
    [] v = "s05" -> BaseTools \cup {"load_skill"}
    [] v = "s06" -> BaseTools \cup {"compact"}
    [] OTHER     -> {}

TOOL_HANDLERS(v) ==
  CASE v = "s02" -> BaseTools
    [] v = "s03" -> BaseTools \cup {"todo"}
    [] v = "s04" -> BaseTools
    [] v = "s05" -> BaseTools \cup {"load_skill"}
    [] v = "s06" -> BaseTools \cup {"compact"}
    [] OTHER     -> {}

\* The raw argument text of a call, by what json.loads and the handler make
\* of it:  ok        an object with the required keys and usable values
\*         missing   an object without a required key
\*         malformed not JSON (json.JSONDecodeError)
\*         nondict   JSON, but not an object (a list, a number)
\*         invalid   an object with the required keys whose values the
\*                   handler refuses (a todo list that fails validation,
\*                   a command that is no string)
ArgKinds == {"ok", "missing", "malformed", "nondict", "invalid"}

\* json.loads(arguments), except json.JSONDecodeError: args = {}
ParsedArgs(arguments) == IF arguments = "malformed" THEN "missing" ELSE arguments

\* handler(**args) raises: ** of a non-mapping is a TypeError, kw["key"] of
\* a missing key a KeyError; TodoManager.update raises ValueError; run_bash
\* tests `d in command` outside its try.  run_read, run_write and run_edit
\* catch everything inside; the compact handler reads no argument.
Raises(name, args) ==
  \/ args = "nondict"
  \/ args = "missing" /\ name # "compact"
  \/ args = "invalid" /\ name \in {"todo", "bash"}

\* run_bash: out = (stdout + stderr).strip(); out[:50000] if out else "(no output)"
run_bash(raw) == IF TLen(Strip(raw)) = 0 THEN NoOutput ELSE Prefix(Strip(raw), ResultLimit)

\* --------------------------------------------------------- TodoManager
\* An item of a submission: a JSON object; a key that is absent is Absent.
Absent == "<absent>"

\* One element of the submitted list: an object with the keys it has.
TodoItem(id, text, status) == [object |-> TRUE, id |-> id, text |-> text, status |-> status]

\* An element that is no object (a string, a number): item.get raises
\* AttributeError.
Scalar == [object |-> FALSE, id |-> Absent, text |-> Text("task", "", 0, 0, 4, 0), status |-> Absent]

Statuses == {"pending", "in_progress", "completed"}

\* str.lower() on the status texts a model sends.
Lower(st) ==
  CASE st = "In_Progress" -> "in_progress"
    [] st = "PENDING"     -> "pending"
    [] st = "Completed"   -> "completed"
    [] OTHER              -> st

\* text = str(item.get("text", "")).strip(); an absent text reads as "".
ItemText(item) == Strip(item.text)

\* status = str(item.get("status", "pending")).lower()
ItemStatus(item) == Lower(IF item.status = Absent THEN "pending" ELSE item.status)

\* item_id = str(item.get("id", str(i + 1))), i counted from 0
ItemId(item, i) == IF item.id = Absent THEN ToString(i) ELSE item.id

\* The length test with >= in place of >.
TodoError_atleast(items) ==
  IF Len(items) >= TodoLimit THEN "too_many"
  ELSE IF \E i \in DOMAIN items : ~items[i].object THEN "not_object"
  ELSE IF \E i \in DOMAIN items : TLen(ItemText(items[i])) = 0 THEN "no_text"
  ELSE IF \E i \in DOMAIN items : ItemStatus(items[i]) \notin Statuses THEN "bad_status"
  ELSE IF Cardinality({i \in DOMAIN items : ItemStatus(items[i]) = "in_progress"}) > 1
  THEN "many_in_progress"
  ELSE "none"

\* Without the test of in_progress_count after the loop.
TodoError_nocount(items) ==
  IF Len(items) > TodoLimit THEN "too_many"
  ELSE IF \E i \in DOMAIN items : ~items[i].object THEN "not_object"
  ELSE IF \E i \in DOMAIN items : TLen(ItemText(items[i])) = 0 THEN "no_text"
  ELSE IF \E i \in DOMAIN items : ItemStatus(items[i]) \notin Statuses THEN "bad_status"
  ELSE "none"

\* The ValueError TodoManager.update raises for a submission, or "none".
\* The items are examined in order and the first bad one raises; the count of
\* in_progress items is tested after the last item.
TodoError(items) ==
  IF Len(items) > TodoLimit THEN "too_many"
  ELSE LET bad == {i \in DOMAIN items : \/ ~items[i].object
                                          \/ TLen(ItemText(items[i])) = 0
                                          \/ ItemStatus(items[i]) \notin Statuses}
       IN IF bad # {}
          THEN LET i == CHOOSE k \in bad : \A j \in bad : k <= j
               IN IF ~items[i].object THEN "not_object"
                  ELSE IF TLen(ItemText(items[i])) = 0 THEN "no_text" ELSE "bad_status"
          ELSE IF Cardinality({i \in DOMAIN items : ItemStatus(items[i]) = "in_progress"}) > 1
               THEN "many_in_progress"
               ELSE "none"

\* validated: what update stores when nothing was raised.
validated(items) ==
  [i \in DOMAIN items |->
      [id |-> ItemId(items[i], i), text |-> ItemText(items[i]), status |-> ItemStatus(items[i])]]

\* self.items.append(...) inside the loop in place of the local `validated`:
\* the items before the one that raises are stored.
update_items_partial(before, sub) ==
  IF TodoError(sub) \in {"none", "many_in_progress"} THEN validated(sub)
  ELSE IF TodoError(sub) = "too_many" THEN before
  ELSE LET bad == {i \in DOMAIN sub : \/ ~sub[i].object
                                       \/ TLen(ItemText(sub[i])) = 0
                                       \/ ItemStatus(sub[i]) \notin Statuses}
           k   == CHOOSE i \in bad : \A j \in bad : i <= j
       IN before \o SubSeq(validated(sub), 1, k - 1)

\* self.items.extend(validated) in place of self.items = validated.
update_items_merge(before, sub) ==
  IF TodoError(sub) = "none" THEN before \o validated(sub) ELSE before

\* TODO.items after update(sub): `self.items = validated` is reached only when
\* nothing was raised.
update_items(before, sub) ==
  IF TodoError(sub) = "none" THEN validated(sub) ELSE before

marker(status) ==
  CASE status = "pending"     -> "[ ]"
    [] status = "in_progress" -> "[>]"
    [] OTHER                  -> "[x]"

\* TodoManager.render: the lines, and the count line when there are items.
render(items) ==
  [lines   |-> [i \in DOMAIN items |->
                  [marker |-> marker(items[i].status), id |-> items[i].id, text |-> items[i].text]],
   counted |-> items # <<>>,
   done    |-> Cardinality({i \in DOMAIN items : items[i].status = "completed"}),
   total   |-> Len(items)]

Digits(n) == IF n < 10 THEN 1 ELSE 2

IdLen(id) == IF id = "a" THEN 1 ELSE IF id \in {ToString(k) : k \in 1..9} THEN 1 ELSE 2

RECURSIVE LinesLen(_)
LinesLen(lines) ==
  IF lines = <<>> THEN 0
  ELSE 7 + IdLen(Head(lines).id) + TLen(Head(lines).text) + 1 + LinesLen(Tail(lines))

\* The text render returns, by its length: "\n".join(lines) with the count
\* line last, or the fixed text for an empty list.
RenderText(items) ==
  IF items = <<>> THEN Text("todo_empty", "todo", 0, 0, 5, 0)
  ELSE Text("todo_render", "todo", 0, 0,
            LinesLen(render(items).lines) + 10 + Digits(render(items).done) + Digits(Len(items)), 0)

\* What TODO.update(items) did: the list before, the submission, the error
\* or the rendering.
TodoResult(before, sub) ==
  [kind |-> "todo", before |-> before, sub |-> sub, error |-> TodoError(sub),
   view |-> IF TodoError(sub) = "none" THEN render(validated(sub)) ELSE render(<<>>)]

\* The submissions a model may send.
TodoTextPadded == Text("task", "", 0, 1, 6, 1)
TodoTextBlank  == Text("task", "", 0, 2, 0, 0)

TodoItems ==
  { TodoItem(Absent, TodoTextPadded, st) : st \in {Absent, "in_progress", "completed", "In_Progress", "done"} }
  \cup { TodoItem(Absent, TodoTextBlank, Absent), TodoItem("a", TodoTextPadded, "completed"), Scalar }

Submissions ==
  UNION { [1..n -> TodoItems] : n \in 0..MaxTodo }
  \cup { [i \in 1..n |-> TodoItem(Absent, TodoTextPadded, Absent)] : n \in {TodoLimit, TodoLimit + 1} }

\* The list an argument text holds: the argument kinds ok and invalid stand
\* for one list each, the kind items for the list this session's model was
\* given to submit.
TodoInputs(arguments, own) ==
  CASE arguments = "ok"      -> { << TodoItem(Absent, TodoTextPadded, "in_progress"),
                                    TodoItem(Absent, TodoTextPadded, Absent) >> }
    [] arguments = "invalid" -> { << TodoItem(Absent, TodoTextPadded, "in_progress"),
                                    TodoItem(Absent, TodoTextPadded, "in_progress") >> }
    [] OTHER                 -> { own }

\* ---------------------------------------------------------- file tools
\* A path is absolute or relative and has components; ".." is the parent.
\* The working root is /home/work; /home/work/out is a symbolic link to /etc.
WORKDIR == << "home", "work" >>
LinkAt  == << "home", "work", "out" >>
LinkTo  == << "etc" >>

IsPrefix(a, b) == Len(a) <= Len(b) /\ SubSeq(b, 1, Len(a)) = a

\* Path.resolve(): ".." leaves a directory (the root is its own parent), a
\* symbolic link is followed.
RECURSIVE Resolve(_, _)
Resolve(stack, parts) ==
  IF parts = <<>> THEN stack
  ELSE IF Head(parts) = ".."
  THEN Resolve(IF stack = <<>> THEN <<>> ELSE SubSeq(stack, 1, Len(stack) - 1), Tail(parts))
  ELSE LET s2 == Append(stack, Head(parts))
       IN Resolve(IF s2 = LinkAt THEN LinkTo ELSE s2, Tail(parts))

\* (WORKDIR / p).resolve(): an absolute p replaces WORKDIR.
ResolvedPath(p) == Resolve(<<>>, IF p.abs THEN p.parts ELSE WORKDIR \o p.parts)

\* The test on the text of the path in place of the resolved path: ".." in p.
Escapes_textual(p) == p.abs \/ \E i \in DOMAIN p.parts : p.parts[i] = ".."

\* safe_path raises: not path.is_relative_to(WORKDIR)
Escapes(p) == ~IsPrefix(WORKDIR, ResolvedPath(p))

\* A file system: the directories and files that exist, by resolved path.
NoEntry       == [kind |-> "none", bytes |-> <<>>]
Dir           == [kind |-> "dir", bytes |-> <<>>]
File(bytes)   == [kind |-> "file", bytes |-> bytes]
Lookup(fs, path) == IF path \in DOMAIN fs THEN fs[path] ELSE NoEntry
Put(fs, path, e) == [q \in DOMAIN fs \cup {path} |-> IF q = path THEN e ELSE fs[q]]

\* read_text(): "\r\n" is read as "\n" (universal newlines).
Decode(bytes) == [i \in DOMAIN bytes |-> IF bytes[i] = "crlf" THEN "nl" ELSE bytes[i]]

\* What a handler returns and does: the text, the file system after the
\* call, and the paths it read, wrote or created.
FileResult(out, fs, touched) ==
  [kind |-> "file", out |-> out, fs |-> fs, touched |-> touched, text |-> [rows |-> <<>>, cut |-> FALSE]]

\* `old_text in content`
Occurs(old, content) ==
  \E i \in 0..(Len(content) - Len(old)) : SubSeq(content, i + 1, i + Len(old)) = old

\* content.replace(old_text, new_text, 1)
ReplaceFirst(content, old, new) ==
  LET at == {i \in 0..(Len(content) - Len(old)) : SubSeq(content, i + 1, i + Len(old)) = old}
      i  == CHOOSE k \in at : \A j \in at : k <= j
  IN SubSeq(content, 1, i) \o new \o SubSeq(content, i + Len(old) + 1, Len(content))

\* fp.parent.mkdir(parents=True, exist_ok=True): the missing ancestors are
\* created; a file in the way raises.
Ancestors(path) == { SubSeq(path, 1, k) : k \in 0..(Len(path) - 1) }
MkdirFails(fs, path) == \E a \in Ancestors(path) : Lookup(fs, a).kind = "file"
Mkdir(fs, path) ==
  [q \in DOMAIN fs \cup Ancestors(path) |-> IF q \in Ancestors(path) THEN Dir ELSE fs[q]]
Created(fs, path) == { a \in Ancestors(path) : Lookup(fs, a).kind = "none" }

\* run_write: safe_path, mkdir of the parent, write_text; every exception
\* becomes the returned text.
run_write(fs, p, content) ==
  LET path == ResolvedPath(p) IN
  IF Escapes(p) THEN FileResult("escape", fs, {})
  ELSE IF MkdirFails(fs, path) THEN FileResult("error", fs, {})
  ELSE IF Lookup(fs, path).kind = "dir"
  THEN FileResult("error", Mkdir(fs, path), Created(fs, path))
  ELSE FileResult("written", Put(Mkdir(fs, path), path, File(content)), Created(fs, path) \cup {path})

\* run_edit that writes the file back also when old_text is not in it.
run_edit_rewrite(fs, p, old, new) ==
  LET path == ResolvedPath(p)
      content == Decode(Lookup(fs, path).bytes)
  IN IF Escapes(p) THEN FileResult("escape", fs, {})
     ELSE IF Lookup(fs, path).kind # "file" THEN FileResult("error", fs, {path})
     ELSE IF ~Occurs(old, content) THEN FileResult("not_found", Put(fs, path, File(content)), {path})
     ELSE FileResult("edited", Put(fs, path, File(ReplaceFirst(content, old, new))), {path})

\* run_edit: safe_path, read_text, the test, write_text of the replacement.
run_edit(fs, p, old, new) ==
  LET path == ResolvedPath(p)
      content == Decode(Lookup(fs, path).bytes)
  IN IF Escapes(p) THEN FileResult("escape", fs, {})
     ELSE IF Lookup(fs, path).kind # "file" THEN FileResult("error", fs, {path})
     ELSE IF ~Occurs(old, content) THEN FileResult("not_found", fs, {path})
     ELSE FileResult("edited", Put(fs, path, File(ReplaceFirst(content, old, new))), {path})

\* The width of a piece of a file: a character, or a block of 30,000.
BlockLen == 30000
Width(ch) == IF ch = "big" THEN BlockLen ELSE 1

RECURSIVE LineWidth(_)
LineWidth(line) == IF line = <<>> THEN 0 ELSE Width(Head(line)) + LineWidth(Tail(line))

\* text.splitlines(): every newline ends a line; what follows the last
\* newline is a line when it is not empty.
RECURSIVE SplitLines(_, _)
SplitLines(content, cur) ==
  IF content = <<>> THEN (IF cur = <<>> THEN <<>> ELSE << cur >>)
  ELSE IF Head(content) = "nl" THEN << cur >> \o SplitLines(Tail(content), <<>>)
  ELSE SplitLines(Tail(content), Append(cur, Head(content)))

\* A row of the text returned: a line of the file, or the notice with the
\* number of lines left.
LineRow(line) == [kind |-> "line", line |-> line, left |-> 0]
Notice(left)  == [kind |-> "notice", line |-> <<>>, left |-> left]
NoticeLen     == 12
RowWidth(row) == IF row.kind = "notice" THEN NoticeLen ELSE LineWidth(row.line)

\* lines[:limit], for a limit of either sign
Take(lines, limit) ==
  IF limit >= 0 THEN SubSeq(lines, 1, Min(limit, Len(lines)))
  ELSE SubSeq(lines, 1, Len(lines) + limit)

\* "\n".join(rows)[:n]: the rows that fit whole, and whether anything was cut.
RECURSIVE Fit(_, _)
Fit(rows, n) ==
  IF rows = <<>> THEN [rows |-> <<>>, cut |-> FALSE]
  ELSE IF RowWidth(Head(rows)) > n THEN [rows |-> <<>>, cut |-> TRUE]
  ELSE IF Tail(rows) = <<>> THEN [rows |-> rows, cut |-> FALSE]
  ELSE IF RowWidth(Head(rows)) + 1 > n THEN [rows |-> << Head(rows) >>, cut |-> TRUE]
  ELSE LET rest == Fit(Tail(rows), n - RowWidth(Head(rows)) - 1)
       IN [rows |-> << Head(rows) >> \o rest.rows, cut |-> rest.cut]

\* No limit is None; a limit is an integer.
None == [given |-> FALSE, n |-> 0]
Limit(n) == [given |-> TRUE, n |-> n]

\* run_read's rows before the cut, with `limit <= len(lines)` as the test.
ReadRows_inclusive(content, limit) ==
  LET lines == SplitLines(Decode(content), <<>>)
      rows  == [i \in DOMAIN lines |-> LineRow(lines[i])]
  IN IF limit.given /\ limit.n # 0 /\ limit.n <= Len(lines)
     THEN Take(rows, limit.n) \o << Notice(Len(lines) - limit.n) >>
     ELSE rows

\* run_read's rows before the cut:
\*   if limit and limit < len(lines): lines = lines[:limit] + [notice]
ReadRows(content, limit) ==
  LET lines == SplitLines(Decode(content), <<>>)
      rows  == [i \in DOMAIN lines |-> LineRow(lines[i])]
  IN IF limit.given /\ limit.n # 0 /\ limit.n < Len(lines)
     THEN Take(rows, limit.n) \o << Notice(Len(lines) - limit.n) >>
     ELSE rows

\* run_read: safe_path, read_text, the rows, "\n".join(lines)[:50000].
run_read(fs, p, limit) ==
  LET path == ResolvedPath(p) IN
  IF Escapes(p) THEN FileResult("escape", fs, {})
  ELSE IF Lookup(fs, path).kind # "file" THEN FileResult("error", fs, {path})
  ELSE [kind |-> "file", out |-> "text", fs |-> fs, touched |-> {path},
        text |-> Fit(ReadRows(Lookup(fs, path).bytes, limit), ResultLimit)]

\* ---------------------------------------------------------- SkillLoader
\* The stems of the *.md files of .skills, in the order of sorted(glob).
SkillStems == << "git", "new", "test" >>
NoFile     == [kind |-> "none"]

\* The text of a skill file: with or without front matter, and its remainder.
SkillFile(front, rest) == [kind |-> "file", front |-> front, rest |-> rest]

\* _parse_frontmatter: the body is stripped only where the front matter matched.
_parse_frontmatter(text) ==
  [meta |-> text.front, body |-> IF text.front THEN Strip(text.rest) ELSE text.rest]

_load_all(dir) ==
  [n \in { m \in DOMAIN dir : dir[m].kind = "file" } |-> _parse_frontmatter(dir[n])]

get_content(index, name) ==
  IF name \notin DOMAIN index
  THEN [kind |-> "unknown", name |-> name,
        available |-> SelectSeq(SkillStems, LAMBDA n : n \in DOMAIN index)]
  ELSE [kind |-> "skill", name |-> name, body |-> index[name].body]

Stems      == { SkillStems[i] : i \in DOMAIN SkillStems }
SkillTexts == { SkillFile(f, Text("skill", b, 0, 1, 10, 1)) : f \in BOOLEAN, b \in {"v1", "v2"} }

\* ---------------------------------------------------------------- state
VARIABLES
  variant,           \* which agents/sNN loop runs this session
  pc,                \* where the process is
  messages,          \* the conversation store (history)
  calls, ci,         \* tool_calls of the response being executed, and the position in it
  manual_compact,    \* s06: the flag of the turn
  rounds_since_todo, \* s03: the staleness counter
  used_todo,         \* s03: the flag of the turn
  clock,             \* int(time.time())
  files,             \* .transcripts: timestamp -> the messages written
  sub_messages, sub_calls, sub_ci, sub_iter, last_text,   \* s04: run_subagent's locals
  nreq, ncalls, nquery,  \* requests, tool calls and queries so far (bounded)
  outcomes,          \* <<id, str(output)[:50000]>> of the calls executed in the turn
  last,              \* what the last step did
  since,             \* summarizing compactions since the last request with the tool schema
  deep,              \* a long session (SpecCompact) or a short one
  reuse_ids,         \* whether the model of this session issues the same call ids in every response
  session,           \* what the model of this session is asked to do (which calls it may make)
  todo_items,        \* s03: TODO.items
  given,             \* the argument of the function under study, as first passed
  skills,            \* s05: SKILL_LOADER.skills
  disk,              \* s05: the files of .skills, by stem
  result             \* what the last call of a handler under study returned

vars == << variant, pc, messages, calls, ci, manual_compact, rounds_since_todo, used_todo,
           clock, files, sub_messages, sub_calls, sub_ci, sub_iter, last_text,
           nreq, ncalls, nquery, outcomes, last, since, deep, reuse_ids,
           session, todo_items, given, skills, disk, result >>

subvars == << sub_messages, sub_calls, sub_ci, sub_iter, last_text >>

Step(act, id, name, arguments, invoked, raised, compacted, ts, fresh, text) ==
  [act |-> act, id |-> id, name |-> name, arguments |-> arguments, invoked |-> invoked, raised |-> raised,
   compacted |-> compacted, ts |-> ts, fresh |-> fresh, text |-> text]

Plain(act) == Step(act, 0, "", "", FALSE, FALSE, FALSE, 0, TRUE, Empty)

\* ------------------------------------------------------ the model's answers
Query    == Text("query", "", 0, 0, 20, 0)
Prompt   == Text("prompt", "", 0, 0, 30, 0)

Say       == Text("say", "", 0, 0, 8, 0)
SayPadded == Text("say", "", 0, 1, 8, 1)
\* max_tokens=8000 is counted by the server in its tokens; the code puts no
\* bound on len(msg.content).
SayLong   == Text("say", "", 0, 0, 90000, 0)
SayBlank  == Text("say", "", 0, 2, 0, 0)

\* The (name, argument text) pairs the model may put in a call.
CallKinds(v) ==
  CASE session = "todo" -> {<<"todo", "ok">>, <<"todo", "items">>}
    [] session = "reminder" -> {<<"bash", "ok">>, <<"todo", "ok">>}
    [] session = "subagent" -> IF ncalls = 0 THEN {<<"task", "ok">>} ELSE {}
    [] session = "focus" -> {<<"bash", "ok">>, <<"compact", given>>}
    [] session = "wide" -> {<<"bash", "ok">>}
    [] deep      -> {<<"bash", "ok">>, <<"compact", "ok">>}
    [] v = "s01" -> {<<"bash", "ok">>, <<"bash", "malformed">>, <<"bash", "nondict">>}
    [] v = "s02" -> {<<"bash", "ok">>, <<"bash", "malformed">>, <<"nope", "ok">>}
    [] v = "s03" -> {<<"bash", "ok">>, <<"bash", "malformed">>, <<"nope", "ok">>,
                     <<"todo", "ok">>, <<"todo", "invalid">>}
    [] v = "s04" -> {<<"bash", "ok">>, <<"bash", "malformed">>, <<"nope", "ok">>, <<"task", "ok">>}
    [] v = "s05" -> {<<"bash", "ok">>, <<"bash", "nondict">>, <<"nope", "ok">>, <<"load_skill", "ok">>}
    [] v = "s06" -> {<<"bash", "ok">>, <<"bash", "malformed">>, <<"nope", "ok">>, <<"compact", "ok">>}
    [] OTHER     -> {}

\* The child of s04 is offered CHILD_TOOLS, and may still answer with any name.
ChildCallKinds ==
  IF session = "subagent" THEN {<<"bash", "ok">>}
  ELSE {<<"bash", "ok">>, <<"bash", "malformed">>, <<"task", "ok">>}

\* The child's msg.content: none, or a text; in the long child runs also a
\* text of blanks only, and a text in at most SubTexts responses of a run.
ChildSays(msgs) ==
  IF session = "subagent"
  THEN IF Cardinality({i \in DOMAIN msgs : msgs[i].role = "assistant" /\ msgs[i].content # Empty}) < SubTexts
       THEN {Empty, SayBlank, SayPadded}
       ELSE {Empty}
  ELSE {Empty, SayPadded}

\* Call ids are unique within one response; a later response issues fresh ids
\* (base = a multiple of the batch bound never used before) or the ids of the first.
CallBudget ==
  CASE session = "todo" -> TodoCalls
    [] session = "reminder" -> ReminderCalls
    [] session = "subagent" -> SubagentCap + 1
    [] session = "wide" -> WideBatch + 1
    [] deep             -> DeepCalls
    [] OTHER            -> MaxCalls

ReqBudget ==
  CASE session = "todo" -> TodoRequests
    [] session = "reminder" -> ReminderRequests
    [] session = "subagent" -> SubagentCap + 2
    [] session = "wide" -> WideRequests
    [] deep             -> DeepRequests
    [] OTHER            -> MaxRequests

\* The queries of a session: as many as its requests allow, one in the long
\* child runs and in the runs of many calls.
QueryBudget == IF session \in {"subagent", "wide"} THEN 1 ELSE ReqBudget

\* The calls of one response: up to MaxBatch, one in the long child runs, up
\* to WideBatch where a response of many calls is looked at.
BatchBound ==
  CASE session = "subagent" -> 1
    [] session = "wide" -> WideBatch
    [] OTHER -> MaxBatch

Batches(kinds, bases, used) ==
  UNION { { [j \in 1..n |-> Call(b + j, k[j][1], k[j][2])] : k \in [1..n -> kinds], b \in bases } :
          n \in 1..Min(BatchBound, CallBudget - used) }

Bases(n) == IF reuse_ids THEN {0} ELSE {n * BatchBound}

\* ------------------------------------------------------------ dispatch
\* What the shell may print for a command (stdout + stderr): nothing, more than
\* the 50000 characters a result may have and, where the 100 characters of
\* micro_compact are read (s06), something in between.
ShellRaw(v) ==
  { Text("out", "bash", 0, 0, 60000, 0) }
  \cup (IF v \in {"s01", "s06"} /\ ~deep /\ session # "wide" THEN { Empty } ELSE {})
  \cup (IF v = "s06" THEN { Text("out", "bash", 0, 0, 150, 0) } ELSE {})

\* What a handler returns when it does not raise.
HandlerOutputs(v, name) ==
  CASE name = "bash"       -> { run_bash(raw) : raw \in ShellRaw(v) }
    [] name = "todo"       -> { Text("todo_render", name, 0, 0, 30, 0) }
    [] name = "load_skill" -> { Text("skill", name, 0, 0, 150, 0), Text("skill", name, 0, 0, 60000, 0) }
    [] name = "compact"    -> { Text("compact_requested", name, 0, 0, 8, 0) }
    [] OTHER               -> { Text("out", name, 0, 0, 150, 0) }

Outcome(crash, invoked, raised, content) ==
  [crash |-> crash, invoked |-> invoked, raised |-> raised, content |-> content]

\* s01 / v0: no handler table; every call is run as a shell command.
\*   cmd = args.get("command", "")  fails on a list or a number;
\*   content = (output or "")[:50000]
DispatchBash(v, tc) ==
  IF ParsedArgs(tc.arguments) = "nondict"
  THEN { Outcome(TRUE, FALSE, FALSE, Empty) }
  ELSE { Outcome(FALSE, TRUE, FALSE, Prefix(OrElse(raw, Empty), ResultLimit)) : raw \in ShellRaw(v) }

\* The table lookup without `if handler else`: calling None raises.
DispatchBare_nocheck(v, tc) ==
  IF tc.name \notin TOOL_HANDLERS(v) \/ Raises(tc.name, ParsedArgs(tc.arguments))
  THEN { Outcome(TRUE, FALSE, TRUE, Empty) }
  ELSE { Outcome(FALSE, TRUE, FALSE, Prefix(o, ResultLimit)) : o \in HandlerOutputs(v, tc.name) }

\* s02, s04 (parent and child): output = handler(**args) if handler else unknown,
\* with no try around it.
DispatchBare(v, tc) ==
  IF tc.name \notin TOOL_HANDLERS(v)
  THEN { Outcome(FALSE, FALSE, FALSE, Prefix(UnknownTool(tc.name), ResultLimit)) }
  ELSE IF Raises(tc.name, ParsedArgs(tc.arguments))
  THEN { Outcome(TRUE, TRUE, TRUE, Empty) }
  ELSE { Outcome(FALSE, TRUE, FALSE, Prefix(o, ResultLimit)) : o \in HandlerOutputs(v, tc.name) }

\* s03, s05, s06: the same inside try / except Exception.
DispatchGuarded(v, tc) ==
  IF tc.name \notin TOOL_HANDLERS(v)
  THEN { Outcome(FALSE, FALSE, FALSE, Prefix(UnknownTool(tc.name), ResultLimit)) }
  ELSE IF Raises(tc.name, ParsedArgs(tc.arguments))
  THEN { Outcome(FALSE, TRUE, TRUE, Prefix(ErrorText(tc.name), ResultLimit)) }
  ELSE { Outcome(FALSE, TRUE, FALSE, Prefix(o, ResultLimit)) : o \in HandlerOutputs(v, tc.name) }

\* s06: a call named compact sets the flag and runs no handler.
DispatchCompact(v, tc) ==
  IF tc.name = "compact"
  THEN { Outcome(FALSE, FALSE, FALSE, Prefix(Compacting, ResultLimit)) }
  ELSE DispatchGuarded(v, tc)

Dispatch(v, tc) ==
  CASE v = "s01" -> DispatchBash(v, tc)
    [] v = "s02" -> DispatchBare(v, tc)
    [] v = "s04" -> DispatchBare(v, tc)
    [] v = "s06" -> DispatchCompact(v, tc)
    [] OTHER     -> DispatchGuarded(v, tc)

\* -------------------------------------------------------------- actions
NoResult == [kind |-> "none"]

\* Everything but the position, the store and the function under study.
InitRest(vs, d, s) ==
  /\ variant \in vs
  /\ deep = d
  /\ session = s
  /\ todo_items = <<>>
  /\ calls = <<>> /\ ci = 0
  /\ manual_compact = FALSE
  /\ rounds_since_todo = 0 /\ used_todo = FALSE
  /\ clock = 0
  /\ files = [t \in {} |-> <<>>]
  /\ disk \in IF s = "skills"
             THEN { dir \in [Stems -> SkillTexts \cup {NoFile}] : dir["new"] = NoFile }
             ELSE { [n \in Stems |-> NoFile] }
  /\ skills = _load_all(disk)
  /\ sub_messages = <<>> /\ sub_calls = <<>> /\ sub_ci = 0 /\ sub_iter = 0 /\ last_text = Empty
  /\ nreq = 0 /\ ncalls = 0 /\ nquery = 0
  /\ reuse_ids \in BOOLEAN
  /\ outcomes = <<>>
  /\ last = Plain("init")
  /\ since = 0

InitWith(vs, d) ==
  /\ InitRest(vs, d, "short")
  /\ pc = "idle"
  /\ messages = <<>>
  /\ given = <<>>
  /\ result = NoResult

Init == InitWith(Variants, FALSE)

\* __main__: history.append({"role": "user", "content": query}); agent_loop(history)
UserInput ==
  /\ pc = "idle"
  /\ nreq < ReqBudget
  /\ nquery < QueryBudget
  /\ nquery' = nquery + 1
  /\ messages' = Append(messages, UserMsg(Query))
  /\ rounds_since_todo' = 0
  /\ outcomes' = <<>>
  /\ pc' = "loop"
  /\ last' = Plain("input")
  /\ UNCHANGED << variant, deep, reuse_ids, session, given, skills, disk, todo_items, result, calls, ci, manual_compact, used_todo, clock, files, subvars,
                  nreq, ncalls, since >>

\* time.time(): the seconds in which no transcript is written are skipped.
Now == IF clock \in DOMAIN files THEN {clock, clock + 1} ELSE {clock}

\* messages.extend(auto_compact(messages)) in place of messages[:] = ...
Compaction_extend(act, store) ==
  \E r \in SummaryTexts, ts \in Now :
    /\ clock' = ts
    /\ files' = WriteTranscript(files, ts, store)
    /\ messages' = store \o auto_compact(ts, r)
    /\ last' = Step(act, 0, "", "", FALSE, FALSE, TRUE, ts, ts \notin DOMAIN files, Strip(r))
    /\ since' = since + 1

\* messages[:] = auto_compact(messages): write the transcript, ask for the
\* summary, replace the store. The step keeps the conversation text of the
\* request as its argument.
\* int(time.time()) is read only to name the file, so the clock is moved where
\* it is read: the second is still the one of the last transcript written, or
\* time has moved on.
Compaction(act, store) ==
  \E r \in SummaryTexts, ts \in Now :
    /\ clock' = ts
    /\ files' = WriteTranscript(files, ts, store)
    /\ messages' = auto_compact(ts, r)
    /\ last' = Step(act, 0, "", conversation_text(store), FALSE, FALSE, TRUE, ts,
                    ts \notin DOMAIN files, Strip(r))
    /\ since' = since + 1

\* s03: the reminder is put in front of the last message when it is a user message.
Reminded(c) == Text("reminded", c.tag, 0, 0, 50 + TLen(c), 0)

InjectReminder(msgs, rounds) ==
  IF /\ rounds >= 3
     /\ msgs # <<>>
     /\ msgs[Len(msgs)].role = "user"
     /\ Strip(msgs[Len(msgs)].content).tag # "reminded"
  THEN [msgs EXCEPT ![Len(msgs)].content = Reminded(msgs[Len(msgs)].content)]
  ELSE msgs

\* The threshold test on the store as it is before micro_compact.
PreRequest_testfirst ==
  /\ pc = "loop"
  /\ nreq < ReqBudget
  /\ pc' = "request"
  /\ IF variant = "s06"
     THEN IF estimate_tokens(messages) > THRESHOLD
          THEN Compaction("pre", micro_compact(messages))
          ELSE /\ messages' = micro_compact(messages)
               /\ last' = Plain("pre")
               /\ UNCHANGED << files, since, clock >>
     ELSE /\ messages' = IF variant = "s03" THEN InjectReminder(messages, rounds_since_todo)
                                            ELSE messages
          /\ last' = Plain("pre")
          /\ UNCHANGED << files, since, clock >>
  /\ UNCHANGED << variant, deep, reuse_ids, session, given, skills, disk, todo_items, result, calls, ci, manual_compact, rounds_since_todo, used_todo,
                  subvars, nreq, ncalls, nquery, outcomes >>

\* The top of `while True`: what a loop does before it issues the request.
PreRequest ==
  /\ pc = "loop"
  /\ nreq < ReqBudget
  /\ pc' = "request"
  /\ IF variant = "s06"
     THEN IF estimate_tokens(micro_compact(messages)) > THRESHOLD
          THEN Compaction("pre", micro_compact(messages))
          ELSE /\ messages' = micro_compact(messages)
               /\ last' = Plain("pre")
               /\ UNCHANGED << files, since, clock >>
     ELSE /\ messages' = IF variant = "s03" THEN InjectReminder(messages, rounds_since_todo)
                                            ELSE messages
          /\ last' = Plain("pre")
          /\ UNCHANGED << files, since, clock >>
  /\ UNCHANGED << variant, deep, reuse_ids, session, given, skills, disk, todo_items, result, calls, ci, manual_compact, rounds_since_todo, used_todo,
                  subvars, nreq, ncalls, nquery, outcomes >>

\* client.chat.completions.create(...) and the branch on tool_calls.
ModelRequest ==
  /\ pc = "request"
  /\ nreq' = nreq + 1
  /\ since' = 0
  /\ outcomes' = <<>>
  /\ \/ \E c \in {Empty, Say, SayPadded, SayBlank} :
          /\ last' = Step("request", 0, "", "", FALSE, FALSE, FALSE, 0, TRUE, c)
          /\ messages' = Append(messages, AsstMsg(Strip(c), <<>>))
          /\ pc' = "idle"
          /\ UNCHANGED << calls, ci, manual_compact, used_todo, ncalls >>
     \/ \E tcs \in Batches(CallKinds(variant), Bases(nreq), ncalls) :
          /\ \E c \in IF session = "focus" THEN {SayPadded, SayLong} ELSE {SayPadded} :
                /\ last' = Step("request", 0, "", "", FALSE, FALSE, FALSE, 0, TRUE, c)
                /\ messages' = Append(messages, AsstMsg(c, tcs))
          /\ ncalls' = ncalls + Len(tcs)
          /\ calls' = tcs
          /\ ci' = 1
          /\ manual_compact' = FALSE
          /\ used_todo' = FALSE
          /\ pc' = "exec"
  /\ UNCHANGED << variant, deep, reuse_ids, session, given, skills, disk, todo_items, result, rounds_since_todo, clock, files, subvars, nquery >>

\* messages.append({"role": "tool", "tool_call_id": tc.id, "content": ...}) and
\* the step of `for tc in tool_calls`.
\* "tool_call_id": tc.function.name in place of tc.id: an id no call has.
AppendResult_noid(content) ==
  /\ messages' = Append(messages, ToolMsg(calls[ci].id + (MaxBatch * (nreq + 1)), content))
  /\ outcomes' = Append(outcomes, [id |-> calls[ci].id, content |-> content])
  /\ IF ci = Len(calls)
     THEN pc' = "endturn" /\ ci' = ci
     ELSE pc' = "exec" /\ ci' = ci + 1

AppendResult(content) ==
  /\ messages' = Append(messages, ToolMsg(calls[ci].id, content))
  /\ outcomes' = Append(outcomes, [id |-> calls[ci].id, content |-> content])
  /\ IF ci = Len(calls)
     THEN pc' = "endturn" /\ ci' = ci
     ELSE pc' = "exec" /\ ci' = ci + 1

\* One pass of the body of `for tc in tool_calls` of the top-level loop.
ExecCall ==
  /\ pc = "exec"
  /\ LET tc == calls[ci] IN
     IF variant = "s04" /\ tc.name = "task"
     THEN \* args.get(...) on the parsed arguments, then run_subagent(prompt)
          IF ParsedArgs(tc.arguments) = "nondict"
          THEN /\ pc' = "crashed"
               /\ last' = Step("exec", tc.id, tc.name, tc.arguments, FALSE, FALSE, FALSE, 0, TRUE, Empty)
               /\ UNCHANGED << messages, outcomes, ci, subvars, manual_compact, used_todo, todo_items, result >>
          ELSE /\ pc' = "sub_request"
               /\ sub_messages' = << UserMsg(IF ParsedArgs(tc.arguments) = "ok" THEN Prompt ELSE Empty) >>
               /\ sub_iter' = 0
               /\ last_text' = Empty
               /\ sub_calls' = <<>>
               /\ sub_ci' = 0
               /\ last' = Step("exec", tc.id, tc.name, tc.arguments, TRUE, FALSE, FALSE, 0, TRUE, Empty)
               /\ UNCHANGED << messages, outcomes, ci, manual_compact, used_todo, todo_items, result >>
     ELSE IF variant = "s03" /\ tc.name = "todo" /\ tc.arguments \in {"ok", "invalid", "items"}
     THEN \* TODO.update(kw["items"]) inside try / except Exception
          \E sub \in TodoInputs(tc.arguments, given) :
            /\ result' = TodoResult(todo_items, sub)
            /\ todo_items' = update_items(todo_items, sub)
            /\ last' = Step("exec", tc.id, tc.name, tc.arguments, TRUE, TodoError(sub) # "none",
                            FALSE, 0, TRUE, Empty)
            /\ AppendResult(Prefix(IF TodoError(sub) = "none" THEN RenderText(validated(sub))
                                                              ELSE ErrorText(tc.name), ResultLimit))
            /\ used_todo' = TRUE
            /\ UNCHANGED << manual_compact, subvars >>
     ELSE \E o \in Dispatch(variant, tc) :
            /\ UNCHANGED << todo_items, result >>
            /\ last' = Step("exec", tc.id, tc.name, tc.arguments, o.invoked, o.raised, FALSE, 0, TRUE, Empty)
            /\ IF o.crash
               THEN /\ pc' = "crashed"
                    /\ UNCHANGED << messages, outcomes, ci, manual_compact, used_todo >>
               ELSE /\ AppendResult(o.content)
                    /\ manual_compact' = (manual_compact \/ (variant = "s06" /\ tc.name = "compact"))
                    /\ used_todo' = (used_todo \/ (variant = "s03" /\ tc.name = "todo"))
            /\ UNCHANGED subvars
  /\ UNCHANGED << variant, deep, reuse_ids, session, given, skills, disk, calls, rounds_since_todo, clock, files,
                  nreq, ncalls, nquery, since >>

\* rounds_since_todo counted per call of the turn in place of per turn.
EndTurn_percall ==
  /\ pc = "endturn"
  /\ pc' = "loop"
  /\ calls' = <<>>
  /\ ci' = 0
  /\ IF variant = "s06" /\ manual_compact
     THEN Compaction("endturn", messages)
     ELSE /\ last' = Plain("endturn")
          /\ UNCHANGED << messages, files, since, clock >>
  /\ rounds_since_todo' = IF variant = "s03"
                          THEN (IF used_todo THEN 0 ELSE rounds_since_todo + Len(calls))
                          ELSE rounds_since_todo
  /\ UNCHANGED << variant, deep, reuse_ids, session, given, skills, disk, todo_items, result, manual_compact, used_todo, subvars, nreq, ncalls, nquery, outcomes >>

\* After the `for`: s06 compacts when the flag is set, s03 updates its counter.
EndTurn ==
  /\ pc = "endturn"
  /\ pc' = "loop"
  /\ calls' = <<>>
  /\ ci' = 0
  /\ IF variant = "s06" /\ manual_compact
     THEN Compaction("endturn", messages)
     ELSE /\ last' = Plain("endturn")
          /\ UNCHANGED << messages, files, since, clock >>
  /\ rounds_since_todo' = IF variant = "s03"
                          THEN (IF used_todo THEN 0 ELSE rounds_since_todo + 1)
                          ELSE rounds_since_todo
  /\ UNCHANGED << variant, deep, reuse_ids, session, given, skills, disk, todo_items, result, manual_compact, used_todo, subvars, nreq, ncalls, nquery, outcomes >>

\* messages.extend(sub_messages) before the result is appended.
SubReturn_history(text) ==
  /\ messages' = (messages \o sub_messages) \o
                    << ToolMsg(calls[ci].id, Prefix(OrElse(text, NoSummary), ResultLimit)) >>
  /\ outcomes' = Append(outcomes, [id |-> calls[ci].id,
                                    content |-> Prefix(OrElse(text, NoSummary), ResultLimit)])
  /\ IF ci = Len(calls)
     THEN pc' = "endturn" /\ ci' = ci
     ELSE pc' = "exec" /\ ci' = ci + 1
  /\ sub_messages' = <<>>
  /\ sub_calls' = <<>>
  /\ sub_ci' = 0

\* run_subagent returns: `return last_text or "(no summary)"`, and the parent
\* appends str(output)[:50000] as the result of the task call.
SubReturn(text) ==
  /\ AppendResult(Prefix(OrElse(text, NoSummary), ResultLimit))
  /\ sub_messages' = <<>>
  /\ sub_calls' = <<>>
  /\ sub_ci' = 0

\* The contents of the responses in the child's store.
ChildTexts(msgs) ==
  LET as == SelectSeq(msgs, LAMBDA m : m.role = "assistant")
  IN [i \in DOMAIN as |-> as[i].content]

\* What a run of run_subagent saw and what it returned.
SubResult(texts, returned) == [kind |-> "sub", texts |-> texts, returned |-> returned]

\* last_text = (msg.content or "").strip() or last_text: an empty response
\* keeps the text of an earlier one.
observe_keep(prev, c) == IF TLen(Strip(c)) = 0 THEN prev ELSE Strip(c)

\* last_text = (msg.content or "").strip(), whatever it was before.
observe(prev, c) == Strip(c)

\* run_subagent: one request of `for _ in range(30)`.
SubRequest ==
  /\ pc = "sub_request"
  /\ nreq < ReqBudget
  /\ nreq' = nreq + 1
  /\ last' = Plain("sub_request")
  /\ \/ \E c \in ChildSays(sub_messages) :
          /\ last_text' = observe(last_text, c)
          /\ SubReturn(observe(last_text, c))
          /\ result' = SubResult(Append(ChildTexts(sub_messages), c),
                                 OrElse(observe(last_text, c), NoSummary))
          /\ UNCHANGED << sub_iter, ncalls >>
     \/ \E tcs \in Batches(ChildCallKinds, Bases(nreq), ncalls), c \in ChildSays(sub_messages) :
          /\ last_text' = observe(last_text, c)
          /\ ncalls' = ncalls + Len(tcs)
          /\ sub_messages' = Append(sub_messages, AsstMsg(c, tcs))
          /\ sub_calls' = tcs
          /\ sub_ci' = 1
          /\ pc' = "sub_exec"
          /\ UNCHANGED << messages, outcomes, ci, sub_iter, result >>
  /\ UNCHANGED << variant, deep, reuse_ids, session, given, skills, disk, todo_items, calls, manual_compact, rounds_since_todo, used_todo, clock, files,
                  nquery, since >>

\* sub_messages = messages in place of a list of its own: the child appends
\* the results of its calls to the store of the parent as well.
SubExecCall_shared ==
  /\ pc = "sub_exec"
  /\ LET tc == sub_calls[sub_ci] IN
     \E o \in DispatchBare("s04", tc) :
       /\ last' = Step("sub_exec", tc.id, tc.name, tc.arguments, o.invoked, o.raised, FALSE, 0, TRUE, Empty)
       /\ IF o.crash
          THEN /\ pc' = "crashed"
               /\ UNCHANGED << messages, outcomes, ci, subvars, result >>
          ELSE IF sub_ci < Len(sub_calls)
          THEN /\ sub_messages' = Append(sub_messages, ToolMsg(tc.id, o.content))
               /\ messages' = Append(messages, ToolMsg(tc.id, o.content))
               /\ sub_ci' = sub_ci + 1
               /\ pc' = "sub_exec"
               /\ UNCHANGED << outcomes, ci, sub_calls, sub_iter, last_text, result >>
          ELSE IF sub_iter + 1 < SubagentCap
          THEN /\ sub_messages' = Append(sub_messages, ToolMsg(tc.id, o.content))
               /\ messages' = Append(messages, ToolMsg(tc.id, o.content))
               /\ sub_iter' = sub_iter + 1
               /\ pc' = "sub_request"
               /\ UNCHANGED << outcomes, ci, sub_calls, sub_ci, last_text, result >>
          ELSE /\ SubReturn(last_text)
               /\ result' = SubResult(ChildTexts(sub_messages), OrElse(last_text, NoSummary))
               /\ sub_iter' = sub_iter + 1
               /\ UNCHANGED last_text
  /\ UNCHANGED << variant, deep, reuse_ids, session, given, skills, disk, todo_items, calls, manual_compact, rounds_since_todo, used_todo, clock, files,
                  nreq, ncalls, nquery, since >>

\* run_subagent: one pass of the body of `for tc in tool_calls`.
SubExecCall ==
  /\ pc = "sub_exec"
  /\ LET tc == sub_calls[sub_ci] IN
     \E o \in DispatchBare("s04", tc) :
       /\ last' = Step("sub_exec", tc.id, tc.name, tc.arguments, o.invoked, o.raised, FALSE, 0, TRUE, Empty)
       /\ IF o.crash
          THEN /\ pc' = "crashed"
               /\ UNCHANGED << messages, outcomes, ci, subvars, result >>
          ELSE IF sub_ci < Len(sub_calls)
          THEN /\ sub_messages' = Append(sub_messages, ToolMsg(tc.id, o.content))
               /\ sub_ci' = sub_ci + 1
               /\ pc' = "sub_exec"
               /\ UNCHANGED << messages, outcomes, ci, sub_calls, sub_iter, last_text, result >>
          ELSE IF sub_iter + 1 < SubagentCap
          THEN /\ sub_messages' = Append(sub_messages, ToolMsg(tc.id, o.content))
               /\ sub_iter' = sub_iter + 1
               /\ pc' = "sub_request"
               /\ UNCHANGED << messages, outcomes, ci, sub_calls, sub_ci, last_text, result >>
          ELSE /\ SubReturn(last_text)
               /\ result' = SubResult(ChildTexts(sub_messages), OrElse(last_text, NoSummary))
               /\ sub_iter' = sub_iter + 1
               /\ UNCHANGED last_text
  /\ UNCHANGED << variant, deep, reuse_ids, session, given, skills, disk, todo_items, calls, manual_compact, rounds_since_todo, used_todo, clock, files,
                  nreq, ncalls, nquery, since >>

Next ==
  \/ UserInput
  \/ PreRequest
  \/ ModelRequest
  \/ ExecCall
  \/ EndTurn
  \/ SubRequest
  \/ SubExecCall

Spec == Init /\ [][Next]_vars

\* Long sessions of the compaction variant.
InitCompact == InitWith({"s06"}, TRUE)

NextCompact ==
  \/ UserInput
  \/ PreRequest
  \/ ModelRequest
  \/ ExecCall
  \/ EndTurn

SpecCompact == InitCompact /\ [][NextCompact]_vars

\* A session of s03 whose model calls todo only, with the fixed list or with
\* the list the session was given, and issues fresh call ids.
InitTodo ==
  /\ InitRest({"s03"}, FALSE, "todo")
  /\ ~reuse_ids
  /\ pc = "idle"
  /\ messages = <<>>
  /\ given \in Submissions
  /\ result = NoResult

SpecTodo == InitTodo /\ [][NextCompact]_vars

\* A session of s03 long enough for three tool turns and the request after
\* them, whose model calls bash and todo.
InitReminder ==
  /\ InitRest({"s03"}, FALSE, "reminder")
  /\ ~reuse_ids
  /\ pc = "idle"
  /\ messages = <<>>
  /\ given = <<>>
  /\ result = NoResult

SpecReminder == InitReminder /\ [][NextCompact]_vars

\* A session of s04 long enough for a child run of SubagentCap requests: the
\* parent calls task, the child calls bash once per response.
InitSubagent ==
  /\ InitRest({"s04"}, FALSE, "subagent")
  /\ ~reuse_ids
  /\ pc = "idle"
  /\ messages = <<>>
  /\ given = <<>>
  /\ result = NoResult

SpecSubagent == InitSubagent /\ [][Next]_vars

\* --------------------------------------- the file tools on any argument
\* The file system before the call: the root, /home, the working root and
\* /etc, the file a in the working root, and a file outside it.
Secret == << "b", "b" >>

FS0(bytes) ==
  ( << >> :> Dir ) @@ ( << "home" >> :> Dir ) @@ ( WORKDIR :> Dir ) @@ ( LinkTo :> Dir )
  @@ ( (WORKDIR \o << "a" >>) :> File(bytes) )
  @@ ( << "home", "a" >> :> File(Secret) ) @@ ( << "etc", "a" >> :> File(Secret) )

RECURSIVE SeqsUpTo(_, _)
SeqsUpTo(S, n) == IF n = 0 THEN { <<>> } ELSE SeqsUpTo(S, n - 1) \cup [1..n -> S]

Inside   == [abs |-> FALSE, parts |-> << "a" >>]

FileArgs(tool, p, fs, old, new, limit) ==
  [tool |-> tool, p |-> p, fs |-> fs, old |-> old, new |-> new, limit |-> limit]

\* One call of a file tool: on any path; edit_file on any content and
\* old_text; read_file on any content and limit.
InitFiles ==
  /\ InitRest({"s02"}, FALSE, "files")
  /\ ~reuse_ids
  /\ pc = "file"
  /\ messages = <<>>
  /\ \/ \E t \in {"read_file", "write_file", "edit_file"},
           p \in [abs : BOOLEAN, parts : SeqsUpTo({"..", "a", "home", "work", "out"}, MaxPath)] :
          given = FileArgs(t, p, FS0(<< "a", "b" >>), << "a" >>, << "b" >>, None)
     \/ \E c \in SeqsUpTo({"a", "b", "nl", "crlf"}, MaxContent),
           old \in SeqsUpTo({"a", "b", "nl"}, MaxOld),
           new \in { <<>>, << "b" >>, << "a", "a" >> } :
          given = FileArgs("edit_file", Inside, FS0(c), old, new, None)
     \/ \E c \in SeqsUpTo({"a", "nl", "big"}, MaxRead),
           l \in { None } \cup { Limit(n) : n \in (0 - 1)..MaxRead } :
          given = FileArgs("read_file", Inside, FS0(c), <<>>, <<>>, l)
  /\ result = NoResult

\* TOOL_HANDLERS[name](**args) for the three file tools.
FileCall ==
  /\ pc = "file"
  /\ pc' = "filed"
  /\ result' = CASE given.tool = "read_file"  -> run_read(given.fs, given.p, given.limit)
                  [] given.tool = "write_file" -> run_write(given.fs, given.p, given.new)
                  [] OTHER                     -> run_edit(given.fs, given.p, given.old, given.new)
  /\ UNCHANGED << variant, deep, reuse_ids, session, given, skills, disk, todo_items, messages, calls, ci,
                  manual_compact, rounds_since_todo, used_todo, clock, files, subvars,
                  nreq, ncalls, nquery, outcomes, last, since >>

NextFiles == FileCall

SpecFiles == InitFiles /\ [][NextFiles]_vars

\* A session of s06 whose model calls compact with the focus hint the session
\* was given, alone or after a shell command, with or without a long text.
InitFocus ==
  /\ InitRest({"s06"}, FALSE, "focus")
  /\ pc = "idle"
  /\ messages = <<>>
  /\ given \in {"focus: tests", "focus: docs"}
  /\ result = NoResult

SpecFocus == InitFocus /\ [][NextCompact]_vars

\* A session of s06 whose model runs shell commands, up to WideBatch in one
\* response.
InitWide ==
  /\ InitRest({"s06"}, FALSE, "wide")
  /\ pc = "idle"
  /\ messages = <<>>
  /\ given = <<>>
  /\ result = NoResult

SpecWide == InitWide /\ [][NextCompact]_vars

\* ------------------------------------------------ load_skill in a session
\* A loader that reads .skills again after a write.
SkillCall_reload ==
  /\ pc \in {"skill", "skilled"}
  /\ ncalls < SkillCalls
  /\ ncalls' = ncalls + 1
  /\ pc' = "skilled"
  /\ \/ \E n \in Stems \cup {"nope"} :
          /\ result' = get_content(skills, n)
          /\ last' = Step("exec", 0, "load_skill", n, TRUE, FALSE, FALSE, 0, TRUE, Empty)
          /\ UNCHANGED << skills, disk >>
     \/ \E n \in Stems, t \in SkillTexts :
          /\ disk' = [disk EXCEPT ![n] = t]
          /\ result' = NoResult
          /\ last' = Step("exec", 0, "write_file", n, TRUE, FALSE, FALSE, 0, TRUE, Empty)
          /\ skills' = _load_all(disk')
  /\ UNCHANGED << variant, deep, reuse_ids, session, given, todo_items, messages, calls, ci,
                  manual_compact, rounds_since_todo, used_todo, clock, files, subvars,
                  nreq, nquery, outcomes, since >>


\* s05: SKILL_LOADER = SkillLoader(SKILLS_DIR) at import, then calls of
\* load_skill and of the tools that write under .skills, in any order.
SkillCall ==
  /\ pc \in {"skill", "skilled"}
  /\ ncalls < SkillCalls
  /\ ncalls' = ncalls + 1
  /\ pc' = "skilled"
  /\ \/ \E n \in Stems \cup {"nope"} :
          /\ result' = get_content(skills, n)
          /\ last' = Step("exec", 0, "load_skill", n, TRUE, FALSE, FALSE, 0, TRUE, Empty)
          /\ UNCHANGED << skills, disk >>
     \/ \E n \in Stems, t \in SkillTexts :
          /\ disk' = [disk EXCEPT ![n] = t]
          /\ result' = NoResult
          /\ last' = Step("exec", 0, "write_file", n, TRUE, FALSE, FALSE, 0, TRUE, Empty)
          /\ UNCHANGED skills
  /\ UNCHANGED << variant, deep, reuse_ids, session, given, todo_items, messages, calls, ci,
                  manual_compact, rounds_since_todo, used_todo, clock, files, subvars,
                  nreq, nquery, outcomes, since >>

InitSkills ==
  /\ InitRest({"s05"}, FALSE, "skills")
  /\ ~reuse_ids
  /\ pc = "skill"
  /\ messages = <<>>
  /\ given = disk
  /\ result = NoResult

NextSkills == SkillCall

SpecSkills == InitSkills /\ [][NextSkills]_vars

\* ------------------------------------------- micro_compact on any store
\* A store as a session of one-call turns leaves it: the query, then for each
\* call the assistant message and the result.  A result of bash is as long as
\* micro_compact's limit or longer; a tool of a very long name has no handler
\* and its result is the unknown-tool text.  The calls carry fresh ids, or all
\* the same id.
MaxTools == 5

ResultLens == {MicroLimit, 2 * MicroLimit + 50}

ToolNames == {"bash", "a_tool_with_a_very_long_name"}

Turn(i, d) ==
  LET id == IF reuse_ids THEN 1 ELSE i
  IN << AsstMsg(Say, << Call(id, d[1], "ok") >>),
        ToolMsg(id, IF d[1] \in TOOL_HANDLERS("s06") THEN Text("out", d[1], 0, 0, d[2], 0)
                    ELSE UnknownTool(d[1])) >>

RECURSIVE Turns(_, _)
Turns(ds, i) ==
  IF i > Len(ds) THEN <<>> ELSE Turn(i, ds[i]) \o Turns(ds, i + 1)

Stores ==
  UNION { { << UserMsg(Query) >> \o Turns(ds, 1) : ds \in [1..n -> ToolNames \X ResultLens] } :
          n \in 0..MaxTools }

InitMicro ==
  /\ InitRest({"s06"}, FALSE, "micro")
  /\ pc = "micro"
  /\ messages \in Stores
  /\ given = messages
  /\ result = NoResult

\* micro_compact(messages), called again on what it returned.
MicroPass ==
  /\ pc = "micro"
  /\ nreq < 2
  /\ nreq' = nreq + 1
  /\ messages' = micro_compact(messages)
  /\ result' = [kind |-> "store", first |-> IF nreq = 0 THEN messages' ELSE result.first]
  /\ last' = Plain("micro")
  /\ UNCHANGED << variant, deep, reuse_ids, session, given, skills, disk, todo_items, pc, calls, ci, manual_compact,
                  rounds_since_todo, used_todo, clock, files, subvars, ncalls, nquery, outcomes, since >>

NextMicro ==
  \/ MicroPass

SpecMicro == InitMicro /\ [][NextMicro]_vars

\* ================================================================ claims
LastMsg(msgs) == msgs[Len(msgs)]

\* The last Len(tcs) + 1 messages are the assistant message recording tcs and
\* one tool message per call, in call order, with the call's id.
BatchAppended(msgs, tcs) ==
  LET n == Len(tcs)
      L == Len(msgs)
  IN /\ L > n
     /\ msgs[L - n].role = "assistant"
     /\ msgs[L - n].tool_calls = tcs
     /\ \A j \in 1..n : /\ msgs[L - n + j].role = "tool"
                        /\ msgs[L - n + j].tool_call_id = tcs[j].id

\* C1: in every variant, once the loop is through with a response of N >= 1
\* calls, the store ends with the assistant message that records the calls and
\* exactly N tool messages, in call order, the i-th with the i-th call's id;
\* after a response without calls the last message is no tool message.
C1_ToolMessagesFollowCalls ==
  /\ (calls # <<>> /\ pc \in {"endturn", "crashed"}) => BatchAppended(messages, calls)
  /\ (pc = "idle" /\ last.act = "request") =>
        (LastMsg(messages).role = "assistant" /\ LastMsg(messages).tool_calls = <<>>)

\* Every assistant message with calls is directly followed by one tool message
\* per call, in call order, and by no further tool message; every tool message
\* has an assistant message before it that records a call with its id.
WellFormed(msgs) ==
  /\ \A i \in DOMAIN msgs :
       (msgs[i].role = "assistant" /\ msgs[i].tool_calls # <<>>) =>
          LET n == Len(msgs[i].tool_calls) IN
          /\ i + n <= Len(msgs)
          /\ \A j \in 1..n : /\ msgs[i + j].role = "tool"
                             /\ msgs[i + j].tool_call_id = msgs[i].tool_calls[j].id
          /\ (i + n + 1 \in DOMAIN msgs => msgs[i + n + 1].role # "tool")
  /\ \A i \in DOMAIN msgs :
       msgs[i].role = "tool" =>
          \E k \in 1..(i - 1) : /\ msgs[k].role = "assistant"
                                /\ \E j \in DOMAIN msgs[k].tool_calls :
                                      msgs[k].tool_calls[j].id = msgs[i].tool_call_id

\* C2: in s06, whenever a model request is issued, the store is well formed.
C2_StoreWellFormedAtRequest ==
  pc = "request" => WellFormed(messages)

\* A request is issued on a store in which micro_compact has put a placeholder
\* and which holds a batch of two calls.
C2_Witness ==
  /\ pc = "request"
  /\ \E i \in DOMAIN messages : messages[i].content.tag = "placeholder"
  /\ \E i \in DOMAIN messages : Len(messages[i].tool_calls) = 2

\* The store the last dispatch appended to.
StoreOf(act) == IF act = "sub_exec" THEN sub_messages ELSE messages

\* C3: in every variant with a handler table, a handler that raises yields a
\* tool message with an error text for its call, and the loop goes on.
C3_HandlerErrorIsData ==
  last.raised =>
     /\ pc # "crashed"
     /\ StoreOf(last.act) # <<>>
     /\ LastMsg(StoreOf(last.act)) = ToolMsg(last.id, ErrorText(last.name))

\* C4: in every variant, a call whose argument text does not parse still has
\* its handler invoked, gets a tool message, and does not abort the turn.
C4_MalformedArgumentsDoNotAbort ==
  (last.act \in {"exec", "sub_exec"} /\ last.arguments = "malformed") =>
     /\ pc # "crashed"
     /\ last.invoked
     /\ StoreOf(last.act) # <<>>
     /\ LastMsg(StoreOf(last.act)).role = "tool"
     /\ LastMsg(StoreOf(last.act)).tool_call_id = last.id

\* The names a loop dispatches: its handler table and, in the parent loop of
\* s04, task.
Registry(v, act) ==
  TOOL_HANDLERS(v) \cup (IF v = "s04" /\ act = "exec" THEN {"task"} ELSE {})

\* C5: in every variant with a registry, a call to an unregistered name runs
\* no handler, gets the unknown-tool text as its tool message, and the loop
\* goes on with the next call or the next request.
C5_UnknownToolIsData ==
  (/\ variant # "s01"
   /\ last.act \in {"exec", "sub_exec"}
   /\ last.name \notin Registry(variant, last.act)) =>
     /\ ~last.invoked
     /\ pc \in (IF last.act = "exec" THEN {"exec", "endturn"} ELSE {"sub_exec", "sub_request"})
     /\ StoreOf(last.act) # <<>>
     /\ LastMsg(StoreOf(last.act)) = ToolMsg(last.id, UnknownTool(last.name))

\* An unknown tool was called first in a batch of two, and the loop is at the
\* second call.
C5_Witness ==
  /\ last.act = "exec"
  /\ last.name = "nope"
  /\ pc = "exec"
  /\ ci = 2

\* C6: in every variant no tool error ends the loop, and the store sent with
\* the next request holds, for every call of the turn, a tool message with the
\* call's id and the call's outcome.
C6_EveryOutcomeReachesTheModel ==
  /\ pc # "crashed"
  /\ pc = "request" =>
        \A k \in DOMAIN outcomes :
           \E i \in DOMAIN messages : messages[i] = ToolMsg(outcomes[k].id, outcomes[k].content)

\* C7: the loop ends exactly at the first response without tool calls, with
\* the response text (text = content.strip()) as the last message; a response
\* with tool calls never ends it.
C7_EndsAtFirstPlainAnswer ==
  /\ pc # "crashed"
  /\ last.act = "request" =>
        /\ pc \in {"idle", "exec"}
        /\ pc = "idle" <=> LastMsg(messages).tool_calls = <<>>
        /\ pc = "idle" => LastMsg(messages) = AsstMsg(Strip(last.text), <<>>)

\* C8: a summarizing compaction, auto or manual, leaves exactly two messages,
\* both built by this event: the user message with the pointer to the
\* transcript just written and the summary just received, and the assistant
\* acknowledgment without tool calls; nothing of the prior store is kept.
C8_CompactionLeavesTwoMessages ==
  last.compacted =>
     /\ Len(messages) = 2
     /\ messages[1].role = "user"
     /\ messages[1].content.tag = "compacted"
     /\ messages[1].content.ts = last.ts
     /\ messages[1].content.arg = last.text.tag
     /\ TLen(messages[1].content) = 60 + TLen(last.text)
     /\ messages[1].tool_calls = <<>>
     /\ messages[2] = AsstMsg(Ack, <<>>)

\* A manual compaction has replaced a store of more than two messages.
C8_Witness ==
  /\ last.compacted
  /\ last.act = "endturn"
  /\ Len(files[last.ts]) > 2

\* C9: every compaction event writes a transcript file that did not exist
\* before it, so no earlier transcript is overwritten.
C9_TranscriptsAreWriteOnce ==
  last.compacted => last.fresh

\* C10: in s06 a compact call runs no handler and gets its tool message like
\* every other call of the batch; the store is compacted at the end of the
\* turn if and only if the batch had a compact call, on a store that ends with
\* the whole batch; and between the batch and the next model request the
\* store is compacted exactly once.
C10_ManualCompactionOncePerTurn ==
  variant = "s06" =>
     /\ (last.act = "exec" /\ last.name = "compact") =>
           /\ ~last.invoked
           /\ manual_compact
           /\ LastMsg(messages) = ToolMsg(last.id, Compacting)
     /\ (last.act = "exec" /\ pc = "endturn") =>
           /\ Len(outcomes) = Len(calls)
           /\ BatchAppended(messages, calls)
           /\ manual_compact <=> (\E j \in DOMAIN calls : calls[j].name = "compact")
     /\ last.act = "endturn" =>
           /\ last.compacted <=> manual_compact
           /\ last.compacted =>
                 /\ Len(files[last.ts]) > Len(outcomes)
                 /\ \A k \in DOMAIN outcomes :
                       files[last.ts][Len(files[last.ts]) - Len(outcomes) + k]
                          = ToolMsg(outcomes[k].id, outcomes[k].content)
     /\ (pc = "request" /\ outcomes # <<>> /\ manual_compact) => since = 1

\* C11: micro_compact is idempotent: for every store, a second application
\* right after the first returns the store the first returned.
C11_MicroCompactIdempotent ==
  (pc = "micro" /\ nreq = 2) => messages = result.first

\* The second application ran on a store in which the first had put a
\* placeholder that is itself longer than the limit.
C11_Witness ==
  /\ pc = "micro"
  /\ nreq = 2
  /\ messages # given
  /\ \E i \in DOMAIN messages :
        messages[i].content.tag = "placeholder" /\ TLen(messages[i].content) > MicroLimit

\* C12: a store with at most 3 tool messages is returned as it was passed:
\* same messages, same order, same contents, however long the results.
C12_FewResultsUntouched ==
  (pc = "micro" /\ nreq >= 1 /\ Cardinality(ToolIdx(given)) <= 3) => messages = given

\* micro_compact ran on a store of exactly 3 results, all over the limit.
C12_Witness ==
  /\ pc = "micro"
  /\ nreq = 1
  /\ Cardinality(ToolIdx(given)) = 3
  /\ \A i \in ToolIdx(given) : TLen(given[i].content) > MicroLimit

\* A submission fails validation, by the claim's four conditions read on the
\* submitted values.
RawInvalid(sub) ==
  \/ Len(sub) > TodoLimit
  \/ \E i \in DOMAIN sub : sub[i].object /\ TLen(Strip(sub[i].text)) = 0
  \/ \E i \in DOMAIN sub : sub[i].status # Absent /\ sub[i].status \notin Statuses
  \/ Cardinality({i \in DOMAIN sub : sub[i].status = "in_progress"}) > 1

\* The same with the status read as update reads it: lower-cased, and
\* pending when the item has none; and an element that is no object fails too.
NormInvalid(sub) ==
  \/ Len(sub) > TodoLimit
  \/ \E i \in DOMAIN sub : ~sub[i].object
  \/ \E i \in DOMAIN sub : TLen(Strip(sub[i].text)) = 0
  \/ \E i \in DOMAIN sub : ItemStatus(sub[i]) \notin Statuses
  \/ Cardinality({i \in DOMAIN sub : ItemStatus(sub[i]) = "in_progress"}) > 1

\* In the loop a rejected update is the call's tool message and the loop goes on.
RejectionIsData ==
  (last.act = "exec" /\ last.name = "todo" /\ last.raised) =>
     /\ pc \in {"exec", "endturn"}
     /\ LastMsg(messages) = ToolMsg(last.id, ErrorText("todo"))

\* C14 (as stated): update fails exactly for the submissions with more than 20
\* items, an item whose text is empty after trimming, an item whose status is
\* outside {pending, in_progress, completed}, or more than one item
\* in_progress; in the loop the failure is the call's tool result.
C14_RejectsExactlyTheFourCases ==
  /\ result.kind = "todo" => ((result.error # "none") <=> RawInvalid(result.sub))
  /\ RejectionIsData

\* C14 (amended): the same with the status taken lower-cased, and with the
\* elements that are no objects among the failures.
C14_RejectsExactlyTheFourCasesNormalised ==
  /\ result.kind = "todo" => ((result.error # "none") <=> NormInvalid(result.sub))
  /\ RejectionIsData

\* A list with one item in_progress and one In_Progress was rejected for its
\* two items in progress, and the loop goes on with the error as the result.
C14_Witness ==
  /\ last.act = "exec" /\ last.name = "todo" /\ last.raised
  /\ result.error = "many_in_progress"
  /\ \E i \in DOMAIN result.sub : result.sub[i].status = "In_Progress"
  /\ \E i \in DOMAIN result.sub : result.sub[i].status = "in_progress"
  /\ pc \in {"exec", "endturn"}

\* C15: a rejected update leaves the stored list as it was before the call.
C15_RejectedUpdateIsAtomic ==
  (result.kind = "todo" /\ result.error # "none") => todo_items = result.before

\* A submission whose first item is valid and whose second is not was
\* rejected while a list was stored.
C15_Witness ==
  /\ result.kind = "todo"
  /\ result.error \in {"not_object", "no_text", "bad_status"}
  /\ Len(result.sub) = 2
  /\ TodoError(<< result.sub[1] >>) = "none"
  /\ result.before # <<>>
  /\ result.before # validated(<< result.sub[1] >>)

\* C16: the stored list always has at most 20 items, at most one of them
\* in_progress, and every item has a text that is not empty and one of the
\* three statuses.
C16_StoredListIsValid ==
  /\ Len(todo_items) <= TodoLimit
  /\ Cardinality({i \in DOMAIN todo_items : todo_items[i].status = "in_progress"}) <= 1
  /\ \A i \in DOMAIN todo_items : /\ TLen(todo_items[i].text) > 0
                                    /\ todo_items[i].status \in Statuses

\* A list with an item in_progress is stored after an update with two items
\* in_progress was rejected, in a later agent_loop invocation than the first.
C16_Witness ==
  /\ \E i \in DOMAIN todo_items : todo_items[i].status = "in_progress"
  /\ result.kind = "todo"
  /\ result.error = "many_in_progress"
  /\ nquery = 2

\* After an accepted update the stored list is the submitted one, item for
\* item: the id (the position when the item has none), the trimmed text, the
\* normalised status.
StoredIsSubmitted ==
  (result.kind = "todo" /\ result.error = "none") =>
     /\ Len(todo_items) = Len(result.sub)
     /\ \A i \in DOMAIN todo_items :
           /\ todo_items[i].id = (IF result.sub[i].id = Absent THEN ToString(i) ELSE result.sub[i].id)
           /\ todo_items[i].text = Strip(result.sub[i].text)
           /\ todo_items[i].status =
                 Lower(IF result.sub[i].status = Absent THEN "pending" ELSE result.sub[i].status)

\* The rendering returned has one line per stored item, in order.
OneLinePerItem ==
  (result.kind = "todo" /\ result.error = "none") =>
     /\ Len(result.view.lines) = Len(todo_items)
     /\ \A i \in DOMAIN todo_items :
           /\ result.view.lines[i].id = todo_items[i].id
           /\ result.view.lines[i].text = todo_items[i].text
           /\ result.view.lines[i].marker = marker(todo_items[i].status)

\* ... followed by the count line: completed items / all items.
CountLine ==
  /\ result.view.counted
  /\ result.view.done = Cardinality({i \in DOMAIN todo_items : todo_items[i].status = "completed"})
  /\ result.view.total = Len(todo_items)

\* C17 (as stated): after an accepted update the stored list is the submitted
\* list and nothing else, and the rendering has one line per item followed by
\* the count line.
C17_AcceptedUpdateReplacesAndRenders ==
  /\ StoredIsSubmitted
  /\ OneLinePerItem
  /\ (result.kind = "todo" /\ result.error = "none") => CountLine

\* C17 (amended): the count line follows when the list is not empty; for an
\* empty list the rendering is the fixed text alone.
C17_AcceptedUpdateReplacesAndRendersNonEmpty ==
  /\ StoredIsSubmitted
  /\ OneLinePerItem
  /\ (result.kind = "todo" /\ result.error = "none" /\ todo_items # <<>>) => CountLine
  /\ (result.kind = "todo" /\ result.error = "none" /\ todo_items = <<>>) =>
        /\ ~result.view.counted
        /\ (last.act = "exec" /\ last.name = "todo") =>
              LastMsg(messages) = ToolMsg(last.id, RenderText(<<>>))

\* A list of two items, one completed, replaced a different stored list.
C17_Witness ==
  /\ result.kind = "todo"
  /\ result.error = "none"
  /\ Len(todo_items) = 2
  /\ result.view.done = 1
  /\ result.before # <<>>
  /\ result.before # todo_items

\* The user message a request carries last.
LastUser(msgs) ==
  LET us == {i \in DOMAIN msgs : msgs[i].role = "user"}
  IN msgs[CHOOSE i \in us : \A j \in us : j <= i]

\* C13: in s03, when three tool turns in a row of one agent_loop invocation
\* called no todo, the user message of the next request starts with the
\* reminder, once; and the counter is 0 after a turn that called todo.
C13_ReminderAfterThreeTurns ==
  variant = "s03" =>
    /\ (pc = "request" /\ rounds_since_todo >= 3) =>
          /\ LastUser(messages).content.tag = "reminded"
          /\ LastUser(messages).content.arg # "reminded"
    /\ (last.act = "endturn" /\ used_todo) => rounds_since_todo = 0

\* The positions inside run_subagent.
SubPcs == {"sub_request", "sub_exec"}

\* A task call starts the child on a store of one user message, the prompt.
ChildStartsFresh ==
  (pc = "exec" /\ pc' = "sub_request") =>
     /\ messages' = messages
     /\ Len(sub_messages') = 1
     /\ sub_messages'[1].role = "user"
     /\ calls[ci].arguments = "ok" => sub_messages'[1] = UserMsg(Prompt)

\* While the child runs, its store grows by its own response or by the result
\* of its own call, and the parent's store stands still.
ChildAppendsItsOwn ==
  (pc \in SubPcs /\ pc' \in SubPcs) =>
     /\ messages' = messages
     /\ Len(sub_messages') = Len(sub_messages) + 1
     /\ SubSeq(sub_messages', 1, Len(sub_messages)) = sub_messages
     /\ LET m == LastMsg(sub_messages')
        IN IF pc = "sub_request"
           THEN m.role = "assistant" /\ m.tool_calls = sub_calls'
           ELSE m.role = "tool" /\ m.tool_call_id = sub_calls[sub_ci].id

\* When the child returns, the parent's store grows by one tool message for
\* the task call, holding the text returned.
OnlyTheTextCrossesBack ==
  (pc \in SubPcs /\ pc' \notin SubPcs \cup {"crashed"}) =>
     messages' = Append(messages,
                        ToolMsg(calls[ci].id, Prefix(OrElse(last_text', NoSummary), ResultLimit)))

\* C18: a subagent's requests carry the task prompt and what the child itself
\* appended, nothing of the parent's store; a task call adds to the parent's
\* store one tool message, for the task call, holding the child's returned
\* text, and nothing of the child's history.
C18_SubagentIsolation ==
  [][ChildStartsFresh /\ ChildAppendsItsOwn /\ OnlyTheTextCrossesBack]_vars

\* A child that ran a tool and answered with a text has returned, after a
\* query and an assistant message in the parent's store.
C18_Witness ==
  /\ variant = "s04"
  /\ last.act = "sub_request"
  /\ pc \in {"exec", "endturn"}
  /\ ncalls = 2
  /\ Len(messages) = 3
  /\ LastMsg(messages) = ToolMsg(calls[ci].id, Strip(SayPadded))

\* C19: a call named task made by the child runs no handler and starts no
\* subagent: its result in the child's store is the unknown-tool text, and the
\* child goes on.
C19_ChildCannotSpawn ==
  (last.act = "sub_exec" /\ last.name = "task") =>
     /\ ~last.invoked
     /\ pc # "crashed"
     /\ pc \in SubPcs => LastMsg(sub_messages) = ToolMsg(last.id, UnknownTool("task"))

\* The child called task with a usable prompt.
C19_Witness ==
  /\ last.act = "sub_exec"
  /\ last.name = "task"
  /\ last.arguments = "ok"
  /\ pc = "sub_request"

\* C20: a subagent run issues at most 30 requests and is never left without
\* returning to the parent.
C20_SubagentReturns ==
  /\ pc = "sub_request" => sub_iter < SubagentCap
  /\ ~(pc = "crashed" /\ last.act = "sub_exec")

\* The text of the last response the child gave, trimmed.
LastChildText == Strip(result.texts[Len(result.texts)])

\* C21 (as stated): run_subagent returns the text of the child's last
\* response, at a plain answer and at the cap alike, and the placeholder if and
\* only if no response of the child carried a text.
C21_ReturnsLastTextOrFallback ==
  result.kind = "sub" =>
     /\ result.returned = OrElse(LastChildText, NoSummary)
     /\ (result.returned = NoSummary) <=>
           (\A i \in DOMAIN result.texts : TLen(Strip(result.texts[i])) = 0)

\* C21 (amended): ... and the placeholder if and only if the last response
\* carried no text.
C21_ReturnsLastTextOrFallbackOfLast ==
  result.kind = "sub" =>
     /\ result.returned = OrElse(LastChildText, NoSummary)
     /\ (result.returned = NoSummary) <=> (TLen(LastChildText) = 0)

\* The cap was reached by a child that gave its one text in the last response.
C21_Witness ==
  /\ result.kind = "sub"
  /\ Len(result.texts) = SubagentCap
  /\ sub_iter = SubagentCap
  /\ result.returned = Strip(SayPadded)
  /\ LastMsg(messages).content = Strip(SayPadded)

\* The calls recorded before position i of the store with the id of the tool
\* message at i.
Matches(msgs, i) ==
  { kj \in (1..(i - 1)) \X (1..MaxBatch) :
       /\ msgs[kj[1]].role = "assistant"
       /\ kj[2] \in DOMAIN msgs[kj[1]].tool_calls
       /\ msgs[kj[1]].tool_calls[kj[2]].id = msgs[i].tool_call_id }

ToolPositions(msgs) == {i \in DOMAIN msgs : msgs[i].role = "tool"}

\* C22 (as stated): with call ids unique within each response, every tool
\* message has the id of exactly one call recorded before it in the store.
C22_ExactlyOnePriorCall ==
  \A i \in ToolPositions(messages) : Cardinality(Matches(messages, i)) = 1

\* C22 (amended): every tool message has the id of at least one call recorded
\* before it, and of exactly one when the model repeats no id in a later
\* response.
C22_AtLeastOnePriorCall ==
  \A i \in ToolPositions(messages) :
     /\ Matches(messages, i) # {}
     /\ ~reuse_ids => Cardinality(Matches(messages, i)) = 1

\* Two turns with fresh ids have left their results in the store.
C22_Witness ==
  /\ ~reuse_ids
  /\ pc = "endturn"
  /\ \E i, j \in ToolPositions(messages) : messages[i].tool_call_id # messages[j].tool_call_id
  /\ Cardinality({k \in DOMAIN messages : messages[k].role = "assistant"}) >= 2

\* C23: in every variant the content of every tool message, in the store and
\* in a child's store, has at most 50,000 characters.
C23_ToolResultsAreBounded ==
  /\ \A i \in ToolPositions(messages) : TLen(messages[i].content) <= ResultLimit
  /\ \A i \in ToolPositions(sub_messages) : TLen(sub_messages[i].content) <= ResultLimit

\* A skill body of 60,000 characters was cut to its first 50,000 by the loop.
C23_Witness ==
  /\ variant = "s05"
  /\ last.act = "exec"
  /\ last.name = "load_skill"
  /\ LastMsg(messages).content = Text("skill", "load_skill", 0, 0, ResultLimit, 0)

\* The resolved path is not the working root nor below it.
Outside(p) ==
  LET r == ResolvedPath(p)
  IN Len(r) < Len(WORKDIR) \/ \E i \in DOMAIN WORKDIR : r[i] # WORKDIR[i]

\* C24: for a path that resolves outside the working root, read_file,
\* write_file and edit_file return the path-escape error and read, write and
\* create nothing; for a path that resolves inside, the path check passes.
C24_EscapingPathsAreRejected ==
  pc = "filed" =>
     /\ Outside(given.p) => /\ result.out = "escape"
                            /\ result.fs = given.fs
                            /\ result.touched = {}
     /\ ~Outside(given.p) => result.out # "escape"

\* write_file was refused for a relative path without ".." that leaves the
\* root through the symbolic link.
C24_Witness ==
  /\ pc = "filed"
  /\ given.tool = "write_file"
  /\ given.p = [abs |-> FALSE, parts |-> << "out", "a" >>]
  /\ result.out = "escape"

ExpectedRows(lines, limit) ==
  IF limit.given /\ 0 < limit.n /\ limit.n < Len(lines)
  THEN [i \in 1..(limit.n + 1) |->
          IF i <= limit.n THEN LineRow(lines[i]) ELSE Notice(Len(lines) - limit.n)]
  ELSE [i \in DOMAIN lines |-> LineRow(lines[i])]

\* The calls of read_file the claim speaks of: 0 < L < n, L >= n, or no limit.
ReadCase ==
  /\ pc = "filed"
  /\ given.tool = "read_file"
  /\ result.out = "text"
  /\ LET n == Len(SplitLines(Decode(Lookup(given.fs, ResolvedPath(given.p)).bytes), <<>>))
     IN ~given.limit.given \/ given.limit.n > 0 \/ given.limit.n >= n

\* C26 (as stated): for n lines and 0 < L < n read_file returns the first L
\* lines and then one notice line reporting n - L lines; for L >= n or no
\* limit, the n lines and no notice.
C26_ReadLimit ==
  ReadCase =>
     /\ ~result.text.cut
     /\ result.text.rows =
          ExpectedRows(SplitLines(Decode(Lookup(given.fs, ResolvedPath(given.p)).bytes), <<>>),
                       given.limit)

\* C26 (amended): ... it returns the first 50,000 characters of that text.
C26_ReadLimitWithinResultLimit ==
  ReadCase =>
     result.text =
        Fit(ExpectedRows(SplitLines(Decode(Lookup(given.fs, ResolvedPath(given.p)).bytes), <<>>),
                         given.limit), ResultLimit)

\* A file of three lines was read with limit 2: two lines and the notice.
C26_Witness ==
  /\ ReadCase
  /\ given.limit = Limit(2)
  /\ Len(result.text.rows) = 3
  /\ result.text.rows[3] = Notice(1)
  /\ ~result.text.cut

\* C27: the skill index never changes after the initial load: whatever tool
\* calls came before, also writes under .skills, load_skill of an indexed name
\* returns the body loaded at the start, and load_skill of any other name
\* returns the unknown-skill error that lists the names indexed at the start.
C27_SkillIndexIsFixed ==
  /\ DOMAIN skills = { n \in Stems : given[n] # NoFile }
  /\ (pc = "skilled" /\ last.name = "load_skill") =>
        IF last.arguments \in Stems /\ given[last.arguments] # NoFile
        THEN /\ result.kind = "skill"
             /\ result.name = last.arguments
             /\ result.body = IF given[last.arguments].front
                              THEN Strip(given[last.arguments].rest)
                              ELSE given[last.arguments].rest
        ELSE /\ result.kind = "unknown"
             /\ { result.available[i] : i \in DOMAIN result.available }
                  = { n \in Stems : given[n] # NoFile }

\* load_skill of a skill whose file was rewritten since the load.
C27_Witness ==
  /\ pc = "skilled"
  /\ last.name = "load_skill"
  /\ result.kind = "skill"
  /\ disk[last.arguments] # given[last.arguments]

\* C28: when the model calls compact with a focus hint, the summarization
\* request of that manual compaction carries the hint: the conversation text
\* of the request holds the call with the hint, so that another hint gives
\* another request.
C28_ManualCompactionCarriesTheHint ==
  (session = "focus" /\ last.act = "endturn" /\ last.compacted) =>
     \E i \in DOMAIN last.arguments : \E j \in DOMAIN last.arguments[i].tool_calls :
        /\ last.arguments[i].tool_calls[j].name = "compact"
        /\ last.arguments[i].tool_calls[j].arguments = given

\* A tool message with at least three tool messages after it and a content of
\* more than 100 characters.
OldAndLong(msgs, i) ==
  /\ msgs[i].role = "tool"
  /\ Cardinality({j \in DOMAIN msgs : j > i /\ msgs[j].role = "tool"}) >= 3
  /\ TLen(msgs[i].content) > 100

MicroCompacted(before, after) ==
  Cardinality({i \in DOMAIN before : before[i].role = "tool"}) > 3 =>
     /\ Len(after) = Len(before)
     /\ \A i \in DOMAIN before :
          /\ after[i].role = before[i].role
          /\ after[i].tool_call_id = before[i].tool_call_id
          /\ after[i].tool_calls = before[i].tool_calls
          /\ IF OldAndLong(before, i)
             THEN after[i].content.tag = "placeholder"
             ELSE after[i].content = before[i].content

\* C29: for a store with more than 3 tool messages micro_compact replaces by a
\* placeholder the content of exactly the tool messages that are not among the
\* 3 most recent and are longer than 100 characters; every other content, and
\* the number, order, roles and tool_call_ids of the messages, stay.
C29_MicroCompactReplacesOldLongResults ==
  /\ (pc = "micro" /\ nreq >= 1) => MicroCompacted(given, result.first)
  /\ (pc = "micro" /\ nreq = 2) => MicroCompacted(result.first, messages)

\* A store of five results: an old long one replaced, an old one of 100
\* characters kept, a recent long one kept.
C29_Witness ==
  /\ pc = "micro" /\ nreq = 1
  /\ \E i, j, k \in DOMAIN given :
       /\ OldAndLong(given, i) /\ messages[i].content # given[i].content
       /\ given[j].role = "tool" /\ ~OldAndLong(given, j) /\ TLen(given[j].content) = 100
       /\ \E l \in DOMAIN given : l > j /\ OldAndLong(given, l)
       /\ given[k].role = "tool" /\ ~OldAndLong(given, k) /\ TLen(given[k].content) > 100

\* The name of the call that produced the tool message at i: the call of that
\* id in the assistant message its batch follows.
Producer(msgs, i) ==
  LET a == CHOOSE n \in 1..(i - 1) :
              /\ msgs[n].role = "assistant"
              /\ \A b \in (n + 1)..(i - 1) : msgs[b].role = "tool"
      k == CHOOSE j \in DOMAIN msgs[a].tool_calls : msgs[a].tool_calls[j].id = msgs[i].tool_call_id
  IN msgs[a].tool_calls[k].name

\* C30: whenever micro_compact replaces a tool result by a placeholder, the
\* placeholder names the tool of the call that produced the result, the call
\* recorded in the assistant message directly before the batch of that tool
\* message, also where the model used a call id again in a later turn.
C30_PlaceholderNamesTheProducer ==
  (pc = "micro" /\ nreq >= 1) =>
     \A i \in DOMAIN given :
        (given[i].role = "tool" /\ result.first[i].content # given[i].content) =>
           /\ result.first[i].content.tag = "placeholder"
           /\ result.first[i].content.arg = Producer(given, i)

\* C31: in every iteration of the s06 loop micro_compact runs before the
\* threshold test and the test reads the micro-compacted store: the store is
\* summarized exactly when the estimate after the substitution is above the
\* threshold, and no request is issued before both steps have run.
C31_MicroCompactBeforeThreshold ==
  [][ /\ (pc' = "request" /\ pc # "request") => pc = "loop"
      /\ nreq' # nreq => (pc = "request" /\ last.act = "pre")
      /\ (pc = "loop" /\ pc' = "request" /\ variant = "s06") =>
            /\ last'.compacted <=> estimate_tokens(micro_compact(messages)) > THRESHOLD
            /\ last'.compacted => files'[last'.ts] = micro_compact(messages)
            /\ ~last'.compacted => messages' = micro_compact(messages) ]_vars

\* A result of 50,000 characters of the turn was replaced by a placeholder and
\* the store, above the threshold with it, is not summarized.
C31_Witness ==
  /\ pc = "request"
  /\ last.act = "pre"
  /\ ~last.compacted
  /\ \E k \in DOMAIN outcomes : TLen(outcomes[k].content) \div 4 > THRESHOLD
  /\ \E i \in DOMAIN messages : messages[i].content.tag = "placeholder"

\* C32: auto-compaction happens before a model request exactly when the token
\* estimate of the store (characters integer-divided by 4) is strictly above
\* 50000, as the pipeline diagram of the module says; at 50000 or less there
\* is none.
C32_AutoCompactAboveFiftyThousand ==
  [][ (pc = "loop" /\ pc' = "request" /\ variant = "s06") =>
         (last'.compacted <=> estimate_tokens(micro_compact(messages)) > 50000) ]_vars

\* C33: the transcript a compaction writes holds one record per message of the
\* store as it is at that moment (after micro_compact, before a request; at
\* the end of the turn, for the compact tool), in store order, each record
\* equal to its message; the store is replaced in the same step, after it.
C33_TranscriptIsTheStore ==
  [][ /\ (pc = "loop" /\ pc' = "request" /\ last'.compacted) =>
            /\ Len(files'[last'.ts]) = Len(messages)
            /\ \A i \in DOMAIN messages :
                 /\ files'[last'.ts][i].role = messages[i].role
                 /\ files'[last'.ts][i].tool_calls = messages[i].tool_calls
                 /\ files'[last'.ts][i].tool_call_id = messages[i].tool_call_id
                 /\ \/ files'[last'.ts][i].content = messages[i].content
                    \/ files'[last'.ts][i].content.tag = "placeholder"
            /\ Len(messages') = 2 /\ messages'[1].content.tag = "compacted"
      /\ (pc = "endturn" /\ last'.compacted) =>
            /\ files'[last'.ts] = messages
            /\ Len(messages') = 2 /\ messages'[1].content.tag = "compacted" ]_vars

\* A manual compaction wrote a transcript of a query, a response and results.
C33_Witness ==
  /\ last.act = "endturn"
  /\ last.compacted
  /\ Len(files[last.ts]) >= 3
  /\ \E i \in DOMAIN files[last.ts] : files[last.ts][i].role = "tool"

\* C34: whenever a compaction replaces the store, the transcript it wrote
\* holds the original content, not a placeholder, of every tool result
\* produced since the previous compaction; here, of those of the turn that
\* has just ended.
C34_TranscriptKeepsOriginals ==
  (last.compacted /\ last.act \in {"pre", "endturn"}) =>
     \A k \in DOMAIN outcomes :
        \E i \in DOMAIN files[last.ts] :
           /\ files[last.ts][i].role = "tool"
           /\ files[last.ts][i].tool_call_id = outcomes[k].id
           /\ files[last.ts][i].content = outcomes[k].content

\* C35: micro_compact loses no recent detail: when no summarizing compaction
\* came in between, the store of the next model request holds every tool
\* result of the turn with its original content, whatever the size of the
\* batch, also for more than 3 calls with results of more than 100 characters.
C35_NextRequestHoldsTheTurn ==
  (pc = "request" /\ last.act = "pre" /\ since = 0) =>
     \A k \in DOMAIN outcomes :
        \E i \in DOMAIN messages :
           /\ messages[i].role = "tool"
           /\ messages[i].tool_call_id = outcomes[k].id
           /\ messages[i].content = outcomes[k].content

\* A tool message that is not among the 3 most recent ones.
OldResult(msgs, i) ==
  /\ msgs[i].role = "tool"
  /\ Cardinality({j \in DOMAIN msgs : j > i /\ msgs[j].role = "tool"}) >= 3

\* C36 (as stated): after micro_compact returns, every tool message other
\* than the 3 most recent has a content of at most 100 characters, for every
\* store and whatever the tool names of its calls.
C36_OldResultsAreShort ==
  (pc = "micro" /\ nreq >= 1) =>
     \A i \in DOMAIN messages : OldResult(messages, i) => TLen(messages[i].content) <= 100

\* C36 (amended): ... has a content of at most 100 characters or the
\* placeholder, which is 9 characters and the name of the tool it names.
C36_OldResultsAreShortOrPlaceholders ==
  (pc = "micro" /\ nreq >= 1) =>
     \A i \in DOMAIN messages :
        OldResult(messages, i) =>
           \/ TLen(messages[i].content) <= 100
           \/ /\ messages[i].content.tag = "placeholder"
              /\ TLen(messages[i].content) = 9 + NameLen(messages[i].content.arg)
              /\ \E a \in DOMAIN given : \E j \in DOMAIN given[a].tool_calls :
                    given[a].tool_calls[j].name = messages[i].content.arg

\* An old result was replaced by a placeholder of more than 100 characters,
\* and another old result of 100 characters was kept.
C36_Witness ==
  /\ pc = "micro" /\ nreq = 1
  /\ \E i, j \in DOMAIN messages :
        /\ OldResult(messages, i) /\ OldResult(messages, j)
        /\ messages[i].content.tag = "placeholder" /\ TLen(messages[i].content) > 100
        /\ messages[j].content.tag = "out" /\ TLen(messages[j].content) = 100

\* C37: between two consecutive model requests of the s06 loop at most one
\* summarizing compaction is performed; a manual compaction at the end of a
\* turn is never followed by an auto-compaction before the next request.
C37_AtMostOneCompactionPerRequest ==
  variant = "s06" => since <= 1

\* C38: in s03 the staleness counter is 0 when agent_loop starts, is never
\* negative, and changes only at the end of a tool-calling turn: to 0 when a
\* call of the turn named todo, accepted or rejected, else to one more.
C38_StalenessCounter ==
  [][ variant = "s03" =>
        /\ rounds_since_todo >= 0 /\ rounds_since_todo' >= 0
        /\ (pc = "idle" /\ pc' = "loop") => rounds_since_todo' = 0
        /\ rounds_since_todo' # rounds_since_todo => pc \in {"idle", "endturn"}
        /\ pc = "endturn" =>
              rounds_since_todo' = IF \E i \in DOMAIN calls : calls[i].name = "todo"
                                   THEN 0 ELSE rounds_since_todo + 1 ]_vars

\* A turn after the first whose todo call was rejected has set the counter to 0.
C38_Witness ==
  /\ variant = "s03" /\ last.act = "endturn" /\ nreq >= 2
  /\ rounds_since_todo = 0
  /\ \E k \in DOMAIN outcomes : outcomes[k].content = Prefix(ErrorText("todo"), ResultLimit)
  /\ \E i \in DOMAIN messages : messages[i].role = "tool" /\ messages[i].content.tag = "out"

\* The result of the call the parent is at, appended to its store.
ResultAppended ==
  /\ Len(messages') = Len(messages) + 1
  /\ SubSeq(messages', 1, Len(messages)) = messages
  /\ messages'[Len(messages')].role = "tool"
  /\ messages'[Len(messages')].tool_call_id = calls[ci].id

\* C39: s04 has one thread of control. The child runs only inside a task call
\* of the parent; from the start of the task call until run_subagent returns
\* the parent issues no request and its store does not change; the return
\* appends the result of the task call; and call i+1 of a response does not
\* start before the result of call i is appended.
C39_SingleThreadOfControl ==
  [][ variant = "s04" =>
        /\ pc \in SubPcs => /\ calls[ci].name = "task"
                            /\ pc' \in SubPcs \cup {"exec", "endturn", "crashed"}
                            /\ last'.act \in {"sub_request", "sub_exec"}
                            /\ pc' \in SubPcs \cup {"crashed"} => messages' = messages
                            /\ pc' \in {"exec", "endturn"} => ResultAppended
        /\ pc' \in SubPcs => pc \in SubPcs \cup {"exec"}
        /\ (pc = "exec" /\ pc' \in SubPcs) => messages' = messages /\ ci' = ci
        /\ pc \notin SubPcs => sub_messages = <<>> /\ sub_calls = <<>>
        /\ (pc \in SubPcs \cup {"exec"} /\ (ci' # ci \/ pc' = "endturn")) =>
              /\ ResultAppended
              /\ pc' = "exec" => ci' = ci + 1
              /\ pc' = "endturn" => ci = Len(calls) ]_vars

\* A child that ran a tool call of its own and answered has returned to the
\* parent, whose store holds the result of the task call last.
C39_Witness ==
  /\ variant = "s04" /\ last.act = "sub_request" /\ pc \in {"exec", "endturn"}
  /\ sub_iter >= 1
  /\ Len(outcomes) >= 1
  /\ messages[Len(messages)].role = "tool"
  /\ messages[Len(messages)].tool_call_id = outcomes[Len(outcomes)].id

\* The content of the edited file before and after the call.
EditedBefore == Lookup(given.fs, ResolvedPath(given.p)).bytes
EditedAfter  == Lookup(result.fs, ResolvedPath(given.p)).bytes

\* old occurs in content at offset i.
OccursAt(old, content, i) ==
  i + Len(old) <= Len(content) /\ SubSeq(content, i + 1, i + Len(old)) = old

\* C40: for every file content and every old_text that occurs in it,
\* edit_file replaces the first occurrence by new_text and leaves every
\* character before it and after it as it was, also when old_text occurs
\* several times or overlaps itself.
C40_EditReplacesFirstOccurrenceOnly ==
  (/\ pc = "filed"
   /\ given.tool = "edit_file"
   /\ ~Outside(given.p)
   /\ Lookup(given.fs, ResolvedPath(given.p)).kind = "file"
   /\ \E i \in 0..Len(EditedBefore) : OccursAt(given.old, EditedBefore, i))
  => /\ result.out = "edited"
     /\ \E i \in 0..Len(EditedBefore) :
          /\ OccursAt(given.old, EditedBefore, i)
          /\ \A j \in 0..(i - 1) : ~OccursAt(given.old, EditedBefore, j)
          /\ EditedAfter = SubSeq(EditedBefore, 1, i) \o given.new
                               \o SubSeq(EditedBefore, i + Len(given.old) + 1, Len(EditedBefore))

====
